---- MODULE Spec2Model ----
(***************************************************************************)
(* A model of the Azure DevOps MCP server (src/src/index.ts and the other  *)
(* versions of the same file under src/unnamed/).                          *)
(*                                                                         *)
(* Node runs the program on one thread: the code between two awaits is one *)
(* atomic step, and every await is a point where another caller may run.   *)
(* An outbound HTTP request is a message in flight: the handler sends it   *)
(* (net[c] = "pending"), the remote service answers it (Respond), and the  *)
(* handler resumes with the answer.                                        *)
(*                                                                         *)
(* Text is a sequence of tokens: a caller-supplied character is one token, *)
(* a fixed fragment of a template literal is one token.  An optional value *)
(* is << >> (undefined / null) or <<v>>.                                   *)
(***************************************************************************)
EXTENDS Integers, Sequences, FiniteSets, TLC

VARIABLES
    env,            \* process.env: [ORG_URL, PAT], each "" when not set
    axiosInstance,  \* the memoized client: << >> or <<[baseURL, authorization]>>
    projectName,    \* the memoized default project: << >> or <<name>>
    created,        \* history: number of axios.create calls
    fetches,        \* history: number of project-list requests sent by getProjectName
    writes,         \* history: the values assigned to projectName, in order
    pc,             \* position of each caller (0 is main, 1.. are tool calls)
    args,           \* request.params of each tool call
    local,          \* local variables of each caller
    net,            \* the outbound request of each caller that is in flight
    reqs,           \* history: the requests each caller has sent, in order
    resps,          \* history: the answers each caller has observed, in order
    result          \* what each tool call returned or threw

vars == <<env, axiosInstance, projectName, created, fetches, writes,
          pc, args, local, net, reqs, resps, result>>

----------------------------------------------------------------------------
(* Bounds of the model *)

\* tool calls of one run, all of which may be in progress at once (SpecSession)
MaxCalls == 2
\* requests of one call that the history keeps; later ones are sent, not kept
MaxLog == 30
\* largest small file, in bytes
MaxFileSize == 4
\* largest small chunk size and threshold
MaxChunkSize == 3
\* most work items a query matches
MaxRefs == 2
MaxOps == 2
\* project-list requests after which no further resolution is started
MaxFetches == 3

Main == 0
CallIds == 1 .. MaxCalls
Callers == {Main} \cup CallIds

None == << >>
Some(v) == <<v>>
IsSome(o) == Len(o) > 0
Val(o) == o[1]

Min(a, b) == IF a < b THEN a ELSE b
Max(a, b) == IF a > b THEN a ELSE b

----------------------------------------------------------------------------
(* Values *)

\* process.env.AZURE_DEVOPS_ORG_URL and AZURE_DEVOPS_PAT, "" when not set
OrgUrls == {"", "https://dev.azure.com/org"}
Pats == {"", "pat"}

\* project names: the remote ones, and what a caller may pass as projectName
ProjA == <<"A">>
ProjB == <<"B">>
\* response.data.value of the project list: the name << >> is a missing or empty name
ProjectLists == {<< >>, << << >> >>, <<ProjA>>, <<ProjB, ProjA>>}

\* ErrorCode of @modelcontextprotocol/sdk
InvalidParams == "InvalidParams"
InternalError == "InternalError"
MethodNotFound == "MethodNotFound"

\* response.data of an answer, and the request a caller has in flight
NoData == [projects |-> << >>, id |-> "", url |-> None, workItems |-> << >>,
           relations |-> None, codes |-> << >>]
Idle == [status |-> "none", kind |-> "", data |-> NoData]
Pending(kind) == [status |-> "pending", kind |-> kind, data |-> NoData]

\* an outbound request as the remote service sees it
NoReq == [kind |-> "", project |-> None, fileName |-> "", id |-> "",
          start |-> 0, end |-> 0, total |-> 0, from |-> 0, to |-> 0, size |-> 0,
          workItemId |-> 0, op |-> "", path |-> "", rel |-> "", url |-> None,
          comment |-> << >>, query |-> << >>, ids |-> << >>,
          method |-> "", expand |-> "", destroy |-> FALSE, type |-> << >>,
          area |-> << >>, iteration |-> << >>, ops |-> << >>, flags |-> {},
          fields |-> None, asOf |-> None]

NoLocal == [currentProjectName |-> None, targetProjectName |-> << >>,
            fileSize |-> 0, chunkSize |-> 0, chunkThreshold |-> 0, start |-> 0,
            attachmentId |-> "", attachmentUrl |-> None, comment |-> << >>,
            workItemRefs |-> << >>, workItemData |-> None, results |-> << >>]
NoArgs == [name |-> "", arguments |-> << >>]
NoResult == [status |-> "none", code |-> "", value |-> None]

\* args.<f>: undefined when the caller did not pass f
Arg(a, f) == IF f \in DOMAIN a.arguments THEN a.arguments[f] ELSE None
\* x ?? d
Coalesce(x, d) == IF IsSome(x) THEN Val(x) ELSE d

\* the history of a caller keeps its first MaxLog requests and their outcomes
Record(log, r) == IF Len(log) < MaxLog THEN Append(log, r) ELSE log
Observe(log, sent, answer) ==
    IF Len(log) < Len(sent)
    THEN Append(log, [status |-> answer.status, id |-> answer.data.id])
    ELSE log

\* what the handlers leave alone
session == <<env, axiosInstance, projectName, created, fetches, writes>>

----------------------------------------------------------------------------
(* Connection / session provider *)

getBasicAuthHeader(pat) == <<"Basic ", "base64", ":", pat>>

AxiosCreate == [baseURL |-> env.ORG_URL, authorization |-> getBasicAuthHeader(env.PAT)]

\* the memo after a call of getAxiosInstance (its value is what the call returns)
getAxiosInstance(inst) == IF inst = None THEN Some(AxiosCreate) ELSE inst

\* mutant: the memo is never consulted
NeverCached(p) == TRUE

\* !projectName
ProjectUnset(p) == p = None \/ Val(p) = << >>

\* mutant: the first project is taken whatever its name
FirstProjectAny(projects) == Len(projects) > 0

\* projects[0].name when the answer names a first project
FirstProjectOk(projects) == Len(projects) > 0 /\ projects[1] # << >>

\* where a caller continues once getProjectName has returned
Returned(c) == IF c = Main THEN "running" ELSE "body"
\* mutant: main connects the transport although the resolution has thrown
ThrownButConnected(c) == IF c = Main THEN "running" ELSE "failed"

\* and when it has thrown: main exits the process, a handler rejects the call
Thrown(c) == IF c = Main THEN "exited" ELSE "failed"

Alive == pc[Main] # "exited"

\* The module body: the configuration check, then main() up to its first await.
LoadModule ==
    /\ pc[Main] = "load"
    /\ pc' = [pc EXCEPT ![Main] = IF env.ORG_URL = "" \/ env.PAT = "" THEN "exited" ELSE "gpn"]
    /\ UNCHANGED <<env, axiosInstance, projectName, created, fetches, writes,
                   args, local, net, reqs, resps, result>>

\* getProjectName up to its first await: the memo test, then getAxiosInstance().
GPN_Check(c) ==
    /\ Alive
    /\ pc[c] = "gpn"
    /\ IF ProjectUnset(projectName)
       THEN /\ axiosInstance' = getAxiosInstance(axiosInstance)
            /\ created' = created + (IF axiosInstance = None THEN 1 ELSE 0)
            /\ pc' = [pc EXCEPT ![c] = "gpn_inst"]
            /\ UNCHANGED local
       ELSE /\ pc' = [pc EXCEPT ![c] = Returned(c)]
            /\ local' = [local EXCEPT ![c].currentProjectName = projectName]
            /\ UNCHANGED <<axiosInstance, created>>
    /\ UNCHANGED <<env, projectName, fetches, writes, args, net, reqs, resps, result>>

\* instance.get('/_apis/projects'): the project-list request goes out.
GPN_Send(c) ==
    /\ Alive
    /\ pc[c] = "gpn_inst"
    /\ net' = [net EXCEPT ![c] = Pending("projects")]
    /\ reqs' = [reqs EXCEPT ![c] = Record(@, [NoReq EXCEPT !.kind = "projects"])]
    /\ fetches' = fetches + 1
    /\ pc' = [pc EXCEPT ![c] = "gpn_wait"]
    /\ UNCHANGED <<env, axiosInstance, projectName, created, writes, args, local,
                   resps, result>>

\* getProjectName resumes with the answer: it sets the memo or throws.
GPN_Resume(c) ==
    /\ Alive
    /\ pc[c] = "gpn_wait"
    /\ net[c].status \in {"ok", "fail"}
    /\ net' = [net EXCEPT ![c] = Idle]
    /\ resps' = [resps EXCEPT ![c] = Observe(@, reqs[c], net[c])]
    /\ IF net[c].status = "ok" /\ FirstProjectOk(net[c].data.projects)
       THEN /\ projectName' = Some(net[c].data.projects[1])
            /\ writes' = Append(writes, net[c].data.projects[1])
            /\ pc' = [pc EXCEPT ![c] = Returned(c)]
            /\ local' = [local EXCEPT ![c].currentProjectName = projectName']
            /\ UNCHANGED result
       ELSE /\ pc' = [pc EXCEPT ![c] = Thrown(c)]
            /\ result' = [result EXCEPT ![c] =
                              [status |-> "error", code |-> InternalError, value |-> None]]
            /\ UNCHANGED <<projectName, writes, local>>
    /\ UNCHANGED <<env, axiosInstance, created, fetches, args, reqs>>

----------------------------------------------------------------------------
(* The remote service *)

\* attachment IDs the remote service issues
AttachmentIds == {"att-1", "att-2"}

\* the URL the remote service reports for an uploaded attachment
ServerUrl(id) == Some([origin |-> "server", project |-> << >>, id |-> id, fileName |-> ""])

\* the work item references a query may match (response.data.workItems), and
\* the records a batch fetch may return (response.data.value), by their IDs
RefLists == {[i \in 1 .. n |-> 100 + i] : n \in (0 .. MaxRefs) \cup {50, 51, 200, 201}}

\* relations of a work item as the remote service reports them: the URL as its
\* parts between slashes, the name attribute when the relation has one
Relation(rel, id, name) ==
    [rel |-> rel, url |-> <<"https:", "", "server", "attachments", id>>, name |-> name]
RelationLists ==
    {None, Some(<< >>),
     Some(<<Relation("System.LinkTypes.Hierarchy-Reverse", "7", None)>>),
     Some(<<Relation("AttachedFile", "att-1", Some("a.bin"))>>),
     Some(<<Relation("ArtifactLink", "c1", None), Relation("AttachedFile", "att-2", None),
            Relation("AttachedFile", "att-1", Some("a.bin"))>>)}

\* the status codes the composite request may report, one per result entry
Codes == {199, 200, 299, 300}
CodeLists == UNION {[1 .. n -> Codes] : n \in 0 .. MaxOps}

\* the answers the remote service may give to a request of a kind
Answers(kind) ==
    {[status |-> "fail", kind |-> kind, data |-> NoData]} \cup
    CASE kind = "projects" ->
           {[status |-> "ok", kind |-> kind, data |-> [NoData EXCEPT !.projects = ps]] :
               ps \in ProjectLists}
      [] kind = "upload" ->
           {[status |-> "ok", kind |-> kind,
             data |-> [NoData EXCEPT !.id = i, !.url = ServerUrl(i)]] : i \in AttachmentIds}
      [] kind = "init" ->
           {[status |-> "ok", kind |-> kind, data |-> [NoData EXCEPT !.id = i]] :
               i \in AttachmentIds}
      [] kind \in {"wiql", "batch"} ->
           {[status |-> "ok", kind |-> kind, data |-> [NoData EXCEPT !.workItems = w]] :
               w \in RefLists}
      [] kind = "workitem" ->
           {[status |-> "ok", kind |-> kind, data |-> [NoData EXCEPT !.relations = r]] :
               r \in RelationLists}
      [] kind = "batchUpdate" ->
           {[status |-> "ok", kind |-> kind, data |-> [NoData EXCEPT !.codes = r]] :
               r \in CodeLists}
      [] OTHER -> {[status |-> "ok", kind |-> kind, data |-> NoData]}

\* The remote service answers the request a caller has in flight, or the request fails.
Respond(c) ==
    /\ Alive
    /\ net[c].status = "pending"
    /\ \E a \in Answers(net[c].kind) : net' = [net EXCEPT ![c] = a]
    /\ UNCHANGED <<session, pc, args, local, reqs, resps, result>>

----------------------------------------------------------------------------
(* Tool dispatcher *)

\* mutant: main connects the transport before it resolves the default project
ArriveBeforeResolved(c, a) ==
    /\ pc[Main] \in {"gpn", "gpn_inst", "gpn_wait", "running"}
    /\ pc[c] = "idle"
    /\ args' = [args EXCEPT ![c] = a]
    /\ axiosInstance' = getAxiosInstance(axiosInstance)
    /\ created' = created + (IF axiosInstance = None THEN 1 ELSE 0)
    /\ pc' = [pc EXCEPT ![c] = "gpn"]
    /\ UNCHANGED <<env, projectName, fetches, writes, local, net, reqs, resps, result>>

\* The CallToolRequestSchema handler up to its first await: getAxiosInstance().
\* The transport delivers calls only once main has connected it.
Arrive(c, a) ==
    /\ pc[Main] = "running"
    /\ pc[c] = "idle"
    /\ args' = [args EXCEPT ![c] = a]
    /\ axiosInstance' = getAxiosInstance(axiosInstance)
    /\ created' = created + (IF axiosInstance = None THEN 1 ELSE 0)
    /\ pc' = [pc EXCEPT ![c] = "gpn"]
    /\ UNCHANGED <<env, projectName, fetches, writes, local, net, reqs, resps, result>>

\* the code the dispatch boundary reports for an error thrown inside the try block
CatchCode(isMcpError, code) == IF isMcpError THEN code ELSE InternalError

\* the handler throws: the call is rejected with an McpError of that code
Throw(c, isMcpError, code) ==
    /\ pc' = [pc EXCEPT ![c] = "failed"]
    /\ result' = [result EXCEPT ![c] =
                      [status |-> "error", code |-> CatchCode(isMcpError, code), value |-> None]]
    /\ net' = [net EXCEPT ![c] = Idle]
    /\ UNCHANGED reqs

\* the handler sends a request and awaits the answer at position next
Send(c, r, next) ==
    /\ net' = [net EXCEPT ![c] = Pending(r.kind)]
    /\ reqs' = [reqs EXCEPT ![c] = Record(@, r)]
    /\ pc' = [pc EXCEPT ![c] = next]
    /\ UNCHANGED result

\* the handler throws an McpError whose message cites an operation index
ThrowCiting(c, code, index) ==
    /\ pc' = [pc EXCEPT ![c] = "failed"]
    /\ result' = [result EXCEPT ![c] =
                      [status |-> "error", code |-> CatchCode(TRUE, code),
                       value |-> Some([operation |-> index])]]
    /\ net' = [net EXCEPT ![c] = Idle]
    /\ UNCHANGED reqs

\* the handler returns a value
Return(c, v) ==
    /\ pc' = [pc EXCEPT ![c] = "done"]
    /\ result' = [result EXCEPT ![c] = [status |-> "ok", code |-> "", value |-> Some(v)]]
    /\ net' = [net EXCEPT ![c] = Idle]
    /\ UNCHANGED reqs

\* the handler resumes at position at with the answer to its request
Answered(c, at) ==
    /\ Alive
    /\ pc[c] = at
    /\ net[c].status \in {"ok", "fail"}
    /\ resps' = [resps EXCEPT ![c] = Observe(@, reqs[c], net[c])]

----------------------------------------------------------------------------
(* Chunked upload sequencer: upload_work_item_attachment *)

DefaultChunkSize == 4 * 1024 * 1024
DefaultChunkThreshold == 100 * 1024 * 1024

\* A JS value passed as fileContentBase64: a string, given as runs of characters
\* ("A" any character of the Base64 alphabets, "=" the pad, "!" any other
\* character), or a number.
Str(runs) == [type |-> "string", runs |-> runs]
Num == [type |-> "number", runs |-> << >>]
Run(ch, n) == [ch |-> ch, n |-> n]

\* !x of an optional argument: undefined and "" are falsy
Falsy(x) == ~IsSome(x) \/ (Val(x).type = "string" /\ Val(x).runs = << >>)

\* The characters Node's decoder takes: it skips a character outside the
\* alphabet and stops at the first pad.
RECURSIVE LegalBeforePad(_)
LegalBeforePad(runs) ==
    IF runs = << >> THEN 0
    ELSE IF Head(runs).ch = "=" THEN 0
    ELSE (IF Head(runs).ch = "A" THEN Head(runs).n ELSE 0) + LegalBeforePad(Tail(runs))

\* Buffer.from(v, 'base64'): throws a TypeError for a number; decodes any string,
\* four characters to three bytes, a rest of two or three to one or two bytes.
BufferFromBase64(v) ==
    IF v.type = "string"
    THEN [threw |-> FALSE, length |-> (3 * LegalBeforePad(v.runs)) \div 4]
    ELSE [threw |-> TRUE, length |-> 0]

\* mutant: the comparison is strict, so a buffer as long as the threshold is chunked
SingleShotBelowOnly(fileSize, chunkThreshold) == fileSize < chunkThreshold

\* fileSize <= chunkThreshold: the single-request upload
SingleShot(fileSize, chunkThreshold) == fileSize <= chunkThreshold

\* an index of Buffer.slice: negative counts from the end, both are clamped
SliceIndex(i, len) == IF i < 0 THEN Max(len + i, 0) ELSE Min(i, len)

\* end = Math.min(start + chunkSize, fileSize) - 1
ChunkEnd(start, chunkSize, fileSize) == Min(start + chunkSize, fileSize) - 1

\* start += chunkSize
NextStart(start, chunkSize) == start + chunkSize

\* mutant: the loop also runs at the end of the buffer
MoreChunksInclusive(start, fileSize) == start <= fileSize

\* the loop test start < fileSize
MoreChunks(start, fileSize) == start < fileSize

\* the PATCH of one chunk: Content-Range bytes start-end/total, and the bytes
\* [from, to) of the buffer that fileBuffer.slice(start, end + 1) carries
ChunkRequest(l) ==
    LET end == ChunkEnd(l.start, l.chunkSize, l.fileSize)
        from == SliceIndex(l.start, l.fileSize)
        to == Max(SliceIndex(end + 1, l.fileSize), from)
    IN [NoReq EXCEPT !.kind = "chunk", !.project = Some(l.targetProjectName),
                     !.id = l.attachmentId, !.start = l.start, !.end = end,
                     !.total = l.fileSize, !.from = from, !.to = to, !.size = to - from]

\* the attachment URL the handler builds after the last chunk
SynthUrl(l, fileName) ==
    Some([origin |-> env.ORG_URL, project |-> l.targetProjectName,
          id |-> l.attachmentId, fileName |-> fileName])

\* mutant: the PATCH overwrites the first relation of the WorkItem
LinkRequestReplacing(l, workItemId) ==
    [NoReq EXCEPT !.kind = "link", !.workItemId = workItemId, !.op = "replace",
                  !.path = "/relations/0", !.rel = "AttachedFile",
                  !.url = l.attachmentUrl, !.comment = l.comment]

\* the PATCH that appends the AttachedFile relation to the WorkItem
LinkRequest(l, workItemId) ==
    [NoReq EXCEPT !.kind = "link", !.workItemId = workItemId, !.op = "add",
                  !.path = "/relations/-", !.rel = "AttachedFile",
                  !.url = l.attachmentUrl, !.comment = l.comment]

\* the link step that follows either upload path
SendLink(c, l) ==
    /\ local' = [local EXCEPT ![c] = l]
    /\ Send(c, LinkRequest(l, Val(Arg(args[c], "workItemId"))), "await_link")

\* the for loop from its test: the next chunk goes out, or the loop ends
ChunkLoop(c, l) ==
    IF MoreChunks(l.start, l.fileSize)
    THEN /\ local' = [local EXCEPT ![c] = l]
         /\ Send(c, ChunkRequest(l), "await_chunk")
    ELSE SendLink(c, [l EXCEPT !.attachmentUrl =
                                   SynthUrl(l, Val(Arg(args[c], "fileName")))])

\* The handler from the case label to its first await: defaults, validation,
\* decoding, and the upload request or the initiate request.
UploadStart(c) ==
    /\ Alive
    /\ pc[c] = "body"
    /\ args[c].name = "upload_work_item_attachment"
    /\ LET a == args[c]
           fileName == Arg(a, "fileName")
           content == Arg(a, "fileContentBase64")
           l == [local[c] EXCEPT
                   !.targetProjectName =
                       Coalesce(Arg(a, "projectName"), Val(local[c].currentProjectName)),
                   !.comment = Coalesce(Arg(a, "comment"),
                                        <<"Attached ", Coalesce(fileName, "undefined"), " via MCP">>),
                   !.chunkSize = Coalesce(Arg(a, "chunkSize"), DefaultChunkSize),
                   !.chunkThreshold = Coalesce(Arg(a, "chunkThreshold"), DefaultChunkThreshold)]
       IN IF ~IsSome(Arg(a, "workItemId")) \/ Coalesce(fileName, "") = "" \/ Falsy(content)
          THEN Throw(c, TRUE, InvalidParams) /\ UNCHANGED local
          ELSE LET buffer == BufferFromBase64(Val(content))
                   sized == [l EXCEPT !.fileSize = buffer.length]
               IN IF buffer.threw
                  THEN Throw(c, TRUE, InvalidParams) /\ UNCHANGED local
                  ELSE /\ local' = [local EXCEPT ![c] = sized]
                       /\ IF SingleShot(sized.fileSize, sized.chunkThreshold)
                          THEN Send(c, [NoReq EXCEPT !.kind = "upload",
                                                     !.project = Some(sized.targetProjectName),
                                                     !.fileName = Val(fileName),
                                                     !.total = sized.fileSize,
                                                     !.to = sized.fileSize,
                                                     !.size = sized.fileSize], "await_upload")
                          ELSE Send(c, [NoReq EXCEPT !.kind = "init",
                                                     !.project = Some(sized.targetProjectName),
                                                     !.fileName = Val(fileName)], "await_init")
    /\ UNCHANGED <<session, args, resps>>

\* The single upload is answered: the link request follows.
UploadResume(c) ==
    /\ Answered(c, "await_upload")
    /\ IF net[c].status = "fail"
       THEN Throw(c, FALSE, "") /\ UNCHANGED local
       ELSE SendLink(c, [local[c] EXCEPT !.attachmentUrl = net[c].data.url,
                                         !.attachmentId = net[c].data.id])
    /\ UNCHANGED <<session, args>>

\* The initiate request is answered: the loop starts at 0.
InitResume(c) ==
    /\ Answered(c, "await_init")
    /\ IF net[c].status = "fail"
       THEN Throw(c, FALSE, "") /\ UNCHANGED local
       ELSE ChunkLoop(c, [local[c] EXCEPT !.attachmentId = net[c].data.id, !.start = 0])
    /\ UNCHANGED <<session, args>>

\* mutant: a failed chunk is swallowed and the loop goes on
ChunkResumeSwallowing(c) ==
    /\ Answered(c, "await_chunk")
    /\ ChunkLoop(c, [local[c] EXCEPT
                        !.start = NextStart(local[c].start, local[c].chunkSize)])
    /\ UNCHANGED <<session, args>>

\* A chunk is answered: the loop steps.
ChunkResume(c) ==
    /\ Answered(c, "await_chunk")
    /\ IF net[c].status = "fail"
       THEN Throw(c, FALSE, "") /\ UNCHANGED local
       ELSE ChunkLoop(c, [local[c] EXCEPT
                            !.start = NextStart(local[c].start, local[c].chunkSize)])
    /\ UNCHANGED <<session, args>>

\* mutant: the result is returned whatever the answer to the link request
LinkResumeUnchecked(c) ==
    /\ Answered(c, "await_link")
    /\ Return(c, [id |-> local[c].attachmentId, url |-> local[c].attachmentUrl])
    /\ UNCHANGED <<session, args, local>>

\* The link request is answered: the call returns the attachment's id and URL.
LinkResume(c) ==
    /\ Answered(c, "await_link")
    /\ IF net[c].status = "fail"
       THEN Throw(c, FALSE, "")
       ELSE Return(c, [id |-> local[c].attachmentId, url |-> local[c].attachmentUrl])
    /\ UNCHANGED <<session, args, local>>

----------------------------------------------------------------------------
(* Query builder: search_work_items (src/unnamed/part_001) *)

\* s.replace(/'/g, "''")
RECURSIVE Escape(_)
Escape(s) ==
    IF s = << >> THEN << >>
    ELSE (IF Head(s) = "'" THEN <<"'", "'">> ELSE <<Head(s)>>) \o Escape(Tail(s))

\* pieces.join(sep), the pieces and the result being texts
RECURSIVE Join(_, _)
Join(pieces, sep) ==
    IF pieces = << >> THEN << >>
    ELSE IF Len(pieces) = 1 THEN pieces[1]
    ELSE pieces[1] \o <<sep>> \o Join(Tail(pieces), sep)

\* s.split(sep): the pieces of s between the separators
RECURSIVE Split(_, _)
Split(s, sep) ==
    IF \A i \in 1 .. Len(s) : s[i] # sep THEN <<s>>
    ELSE LET k == CHOOSE i \in 1 .. Len(s) : s[i] = sep /\ \A j \in 1 .. (i - 1) : s[j] # sep
         IN <<SubSeq(s, 1, k - 1)>> \o Split(SubSeq(s, k + 1, Len(s)), sep)

\* s.trim()
RECURSIVE Trim(_)
Trim(s) ==
    IF s = << >> THEN s
    ELSE IF Head(s) = " " THEN Trim(Tail(s))
    ELSE IF s[Len(s)] = " " THEN Trim(SubSeq(s, 1, Len(s) - 1))
    ELSE s

\* /^\d+$/.test(s)
IsNumericId(s) == s # << >> /\ \A i \in 1 .. Len(s) : s[i] \in {"0", "1"}

\* s.toUpperCase()
UpperChar(ch) ==
    CASE ch = "a" -> "A" [] ch = "s" -> "S" [] ch = "c" -> "C" [] ch = "d" -> "D"
      [] ch = "e" -> "E" [] ch = "i" -> "I" [] ch = "x" -> "X" [] OTHER -> ch
ToUpperCase(s) == [i \in 1 .. Len(s) |-> UpperChar(s[i])]

\* [field] = 'value' with the quotes of the value doubled
Equals(field, value) == <<field, " = '">> \o Escape(value) \o <<"'">>

\* mutant: the projectName argument is ignored
DefaultProjectOnly(a, currentProjectName) == currentProjectName

\* the project the search is scoped to: args.projectName ?? currentProjectName
TargetProject(a, currentProjectName) == Coalesce(Arg(a, "projectName"), currentProjectName)

\* the predicate every query starts with
ProjectCondition(project) == Equals("[System.TeamProject]", project)

\* mutant: blank pieces are kept as tags
TagListUnfiltered(tags) == [i \in 1 .. Len(Split(tags, ";")) |-> Trim(Split(tags, ";")[i])]

\* tags.split(';').map(t => t.trim()).filter(t => t)
TagList(tags) == SelectSeq([i \in 1 .. Len(Split(tags, ";")) |-> Trim(Split(tags, ";")[i])],
                           LAMBDA t : t # << >>)

TagCondition(tagList) ==
    <<"(">> \o Join([i \in 1 .. Len(tagList) |->
                        <<"[System.Tags] CONTAINS '">> \o Escape(tagList[i]) \o <<"'">>], " OR ")
            \o <<")">>

QueryCondition(queryText) ==
    <<"([System.Title] CONTAINS '">> \o Escape(queryText) \o <<"' ">>
        \o (IF IsNumericId(queryText) THEN <<"OR [System.Id] = ">> \o queryText ELSE << >>)
        \o <<" OR [System.Description] CONTAINS '">> \o Escape(queryText) \o <<"')">>

\* the text of an optional string argument, "" when it is not given
Text(a, f) == Coalesce(Arg(a, f), << >>)
\* conditions.push(cond) when the filter is given and not empty
When(given, cond) == IF given THEN <<cond>> ELSE << >>

\* the conditions array, in the order the handler pushes them
Conditions(a, project) ==
    <<ProjectCondition(project)>>
    \o When(Text(a, "workItemType") # << >>,
            Equals("[System.WorkItemType]", Text(a, "workItemType")))
    \o When(Text(a, "state") # << >>, Equals("[System.State]", Text(a, "state")))
    \o When(Text(a, "assignedTo") # << >>, Equals("[System.AssignedTo]", Text(a, "assignedTo")))
    \o When(Text(a, "tags") # << >> /\ TagList(Text(a, "tags")) # << >>,
            TagCondition(TagList(Text(a, "tags"))))
    \o When(Text(a, "createdAfter") # << >>,
            <<"[System.CreatedDate] >= '">> \o Text(a, "createdAfter") \o <<"'">>)
    \o When(Text(a, "updatedAfter") # << >>,
            <<"[System.ChangedDate] >= '">> \o Text(a, "updatedAfter") \o <<"'">>)
    \o When(Text(a, "query") # << >>, QueryCondition(Text(a, "query")))

DefaultFields ==
    <<"System.Id", "System.Title", "System.State", "System.WorkItemType",
      "System.AssignedTo", "System.Tags", "System.CreatedDate", "System.ChangedDate",
      "System.CreatedBy", "System.ChangedBy">>

\* requestedFields when it is a non-empty array, the default list otherwise
FieldsToSelect(a) ==
    IF IsSome(Arg(a, "fields")) /\ Val(Arg(a, "fields")) # << >>
    THEN Val(Arg(a, "fields")) ELSE DefaultFields

\* orderMap[field] || "[System.ChangedDate]": orderMap is an object literal, so
\* a field that names a property of Object.prototype finds that property
MappedField(field) ==
    CASE field = <<"ChangedDate">> -> "[System.ChangedDate]"
      [] field = <<"CreatedDate">> -> "[System.CreatedDate]"
      [] field = <<"State">> -> "[System.State]"
      [] field = <<"ID">> -> "[System.Id]"
      [] field = <<"constructor">> -> "function Object() { [native code] }"
      [] OTHER -> "[System.ChangedDate]"

\* the ORDER BY clause: const [field, direction = "DESC"] = orderBy.split(" ")
OrderByClause(a) ==
    IF Text(a, "orderBy") = << >> THEN <<"[System.ChangedDate]", " ", "DESC">>
    ELSE LET parts == Split(Text(a, "orderBy"), " ")
             direction == IF Len(parts) >= 2 THEN parts[2] ELSE <<"DESC">>
         IN <<MappedField(parts[1]), " ">> \o ToUpperCase(direction)

\* the query text sent to the remote service (white space of the template aside)
Wiql(a, project) ==
    <<"SELECT ">> \o Join([i \in 1 .. Len(FieldsToSelect(a)) |-> <<FieldsToSelect(a)[i]>>], ", ")
        \o <<" FROM WorkItems WHERE ">> \o Join(Conditions(a, project), " AND ")
        \o <<" ORDER BY ">> \o OrderByClause(a)

\* Math.min(args.top || 50, 200)
Top(a) == Min(IF IsSome(Arg(a, "top")) /\ Val(Arg(a, "top")) # 0 THEN Val(Arg(a, "top")) ELSE 50,
              200)

\* refs.slice(0, top)
SliceTo(refs, top) == SubSeq(refs, 1, SliceIndex(top, Len(refs)))

\* The handler from the case label to its first await: the query goes out.
SearchStart(c) ==
    /\ Alive
    /\ pc[c] = "body"
    /\ args[c].name = "search_work_items"
    /\ LET project == TargetProject(args[c], Val(local[c].currentProjectName)) IN
       /\ local' = [local EXCEPT ![c].targetProjectName = project]
       /\ Send(c, [NoReq EXCEPT !.kind = "wiql", !.project = Some(project),
                                !.query = Wiql(args[c], project)], "await_wiql")
    /\ UNCHANGED <<session, args, resps>>

\* The query is answered: no match is a result of its own, otherwise the first
\* top references are fetched in one batch request.
SearchResume(c) ==
    /\ Answered(c, "await_wiql")
    /\ LET refs == net[c].data.workItems
           ids == SliceTo(refs, Top(args[c]))
       IN /\ IF net[c].status = "fail" THEN Throw(c, FALSE, "")
             ELSE IF refs = << >>
             THEN Return(c, [kind |-> "none", totalCount |-> 0, returnedCount |-> 0,
                             hasMoreResults |-> FALSE])
             ELSE IF ids = << >>
             THEN Return(c, [kind |-> "noIds", totalCount |-> 0, returnedCount |-> 0,
                             hasMoreResults |-> FALSE])
             ELSE Send(c, [NoReq EXCEPT !.kind = "batch", !.ids = ids], "await_batch")
          /\ local' = [local EXCEPT ![c].workItemRefs = refs]
    /\ UNCHANGED <<session, args>>

\* The batch fetch is answered: the formatted result is returned.
BatchResume(c) ==
    /\ Answered(c, "await_batch")
    /\ IF net[c].status = "fail" THEN Throw(c, FALSE, "")
       ELSE Return(c, [kind |-> "found",
                       totalCount |-> Len(local[c].workItemRefs),
                       returnedCount |-> Len(net[c].data.workItems),
                       hasMoreResults |-> Len(local[c].workItemRefs) > Top(args[c])])
    /\ UNCHANGED <<session, args, local>>

----------------------------------------------------------------------------
(* list_work_item_attachments *)

\* mutant: every relation is taken for an attachment
AllRelations(relations) ==
    [k \in 1 .. Len(relations) |->
        [id |-> relations[k].url[Len(relations[k].url)],
         name |-> Coalesce(relations[k].name, "Unknown Filename"),
         url |-> relations[k].url]]

\* the relations that are attachments, with the ID their URL ends in
Attachments(relations) ==
    LET attached == SelectSeq(relations, LAMBDA r : r.rel = "AttachedFile")
    IN [k \in 1 .. Len(attached) |->
           [id |-> attached[k].url[Len(attached[k].url)],
            name |-> Coalesce(attached[k].name, "Unknown Filename"),
            url |-> attached[k].url]]

\* the download URL the handler composes for an attachment
DownloadUrl(orgUrl, project, att) ==
    [origin |-> orgUrl, project |-> project, id |-> att.id, fileName |-> att.name]

\* The handler from the case label to its first await: the work item is requested
\* with its relations.
ListStart(c) ==
    /\ Alive
    /\ pc[c] = "body"
    /\ args[c].name = "list_work_item_attachments"
    /\ LET project == TargetProject(args[c], Val(local[c].currentProjectName))
           workItemId == Arg(args[c], "workItemId")
       IN IF ~IsSome(workItemId)
          THEN Throw(c, TRUE, InvalidParams) /\ UNCHANGED local
          ELSE /\ local' = [local EXCEPT ![c].targetProjectName = project]
               /\ Send(c, [NoReq EXCEPT !.kind = "workitem", !.method = "GET",
                                        !.project = Some(project),
                                        !.workItemId = Val(workItemId),
                                        !.expand = "relations"], "await_workitem")
    /\ UNCHANGED <<session, args, resps>>

\* The work item is answered: its attachments are listed, or none was found.
ListResume(c) ==
    /\ Answered(c, "await_workitem")
    /\ local' = [local EXCEPT ![c].workItemData = net[c].data.relations]
    /\ IF net[c].status = "fail" THEN Throw(c, FALSE, "")
       ELSE LET attachments == Attachments(Coalesce(net[c].data.relations, << >>))
            IN IF attachments = << >>
               THEN Return(c, [kind |-> "none", workItemId |-> Val(Arg(args[c], "workItemId"))])
               ELSE Return(c, [kind |-> "listed",
                               attachments |->
                                   [k \in 1 .. Len(attachments) |->
                                       [id |-> attachments[k].id,
                                        name |-> attachments[k].name,
                                        url |-> attachments[k].url,
                                        downloadUrl |->
                                            DownloadUrl(env.ORG_URL, local[c].targetProjectName,
                                                        attachments[k])]]])
    /\ UNCHANGED <<session, args>>

----------------------------------------------------------------------------
(* get_work_items_batch *)

\* a JS value passed where an array is expected: an array of items, or something else
JsArray(items) == [type |-> "array", items |-> items]
NotArray == [type |-> "number", items |-> << >>]
\* Array.isArray(v), v being undefined when the argument is not given
IsArray(v) == IsSome(v) /\ Val(v).type = "array"

MaxBatchIds == 200

\* mutant: a list of exactly the maximum length is refused
TooManyIdsAtLimit(ids) == Len(ids) >= MaxBatchIds

\* ids.length > 200
TooManyIds(ids) == Len(ids) > MaxBatchIds

\* The handler from the case label to its first await: the ids are validated and
\* the batch fetch goes out.
GetBatchStart(c) ==
    /\ Alive
    /\ pc[c] = "body"
    /\ args[c].name = "get_work_items_batch"
    /\ LET ids == Arg(args[c], "ids")
       IN IF ~IsArray(ids) \/ Val(ids).items = << >>
          THEN Throw(c, TRUE, InvalidParams)
          ELSE IF TooManyIds(Val(ids).items)
          THEN Throw(c, TRUE, InvalidParams)
          ELSE Send(c, [NoReq EXCEPT !.kind = "batch", !.method = "POST",
                                     !.ids = Val(ids).items,
                                     !.fields = Arg(args[c], "fields"),
                                     !.asOf = IF Text(args[c], "asOf") # << >>
                                              THEN Arg(args[c], "asOf") ELSE None,
                                     !.expand = Coalesce(Arg(args[c], "expand"), "")],
                    "await_items")
    /\ UNCHANGED <<session, args, local, resps>>

\* The batch fetch is answered: the records are summarised.
GetBatchResume(c) ==
    /\ Answered(c, "await_items")
    /\ IF net[c].status = "fail" THEN Throw(c, FALSE, "")
       ELSE Return(c, [kind |-> "fetched", count |-> Len(net[c].data.workItems)])
    /\ UNCHANGED <<session, args, local>>

----------------------------------------------------------------------------
(* batch_update_work_items *)

\* an entry of the operations array
Operation(method, workItemId, workItemType, project, updates, fields) ==
    [method |-> method, workItemId |-> workItemId, workItemType |-> workItemType,
     projectName |-> project, updates |-> updates, fields |-> fields]

\* mutant: only PATCH operations are validated
OpRejectedPatchOnly(op) == op.method = Some("PATCH") /\ Coalesce(op.workItemId, 0) = 0

\* the switch on the method throws for this operation
OpRejected(op) ==
    CASE op.method = Some("PATCH") -> Coalesce(op.workItemId, 0) = 0
      [] op.method = Some("POST") -> Coalesce(op.workItemType, << >>) = << >>
      [] op.method = Some("DELETE") -> Coalesce(op.workItemId, 0) = 0
      [] OTHER -> TRUE

\* Object.entries(o).map(...): one patch entry per field, with the given op
PatchBody(opName, entries) ==
    [k \in 1 .. Len(entries) |->
        [op |-> opName, path |-> <<"/fields/", entries[k][1]>>, value |-> entries[k][2]]]

\* the entry of the composite request built for an operation that passed
BatchRequest(op, currentProjectName) ==
    LET project == Coalesce(op.projectName, currentProjectName)
    IN CASE op.method = Some("PATCH") ->
              [method |-> "PATCH", project |-> project, workItemId |-> Val(op.workItemId),
               type |-> << >>,
               body |-> IF IsSome(op.updates) THEN PatchBody("replace", Val(op.updates))
                        ELSE << >>]
         [] op.method = Some("POST") ->
              [method |-> "POST", project |-> project, workItemId |-> 0,
               type |-> Val(op.workItemType),
               body |-> IF IsSome(op.fields) THEN PatchBody("add", Val(op.fields))
                        ELSE << >>]
         [] OTHER ->
              [method |-> "DELETE", project |-> project, workItemId |-> Val(op.workItemId),
               type |-> << >>, body |-> << >>]

\* mutant: every code under 300 counts as a success
IsSuccessBelow300(code) == code < 300

\* r.code >= 200 && r.code < 300
IsSuccess(code) == code >= 200 /\ code < 300

\* The handler from the case label to its first await: every operation is
\* checked while the composite request is built, in index order; then it is sent.
BatchUpdateStart(c) ==
    /\ Alive
    /\ pc[c] = "body"
    /\ args[c].name = "batch_update_work_items"
    /\ LET operations == Arg(args[c], "operations")
           ops == Val(operations).items
           rejected == {k \in 1 .. Len(ops) : OpRejected(ops[k])}
           flags == {f \in {"bypassRules", "suppressNotifications"} :
                        Coalesce(Arg(args[c], f), FALSE)}
       IN IF ~IsArray(operations) \/ ops = << >>
          THEN Throw(c, TRUE, InvalidParams)
          ELSE IF rejected # {}
          THEN ThrowCiting(c, InvalidParams,
                           (CHOOSE k \in rejected : \A j \in rejected : k <= j) - 1)
          ELSE Send(c, [NoReq EXCEPT
                           !.kind = "batchUpdate", !.method = "PATCH", !.flags = flags,
                           !.ops = [k \in 1 .. Len(ops) |->
                                       BatchRequest(ops[k], Val(local[c].currentProjectName))]],
                    "await_batchUpdate")
    /\ UNCHANGED <<session, args, local, resps>>

\* The composite request is answered: successes and failures are counted.
BatchUpdateResume(c) ==
    /\ Answered(c, "await_batchUpdate")
    /\ local' = [local EXCEPT ![c].results = net[c].data.codes]
    /\ IF net[c].status = "fail" THEN Throw(c, FALSE, "")
       ELSE LET results == net[c].data.codes
                successCount == Cardinality({k \in 1 .. Len(results) : IsSuccess(results[k])})
            IN Return(c, [kind |-> "counted", successCount |-> successCount,
                          errorCount |-> Len(results) - successCount])
    /\ UNCHANGED <<session, args>>

----------------------------------------------------------------------------
(* delete_work_item *)

\* mutant: an omitted destroy flag stands for true
DestroyByDefault(a) == Coalesce(Arg(a, "destroy"), TRUE)

\* args.destroy ?? false
Destroy(a) == Coalesce(Arg(a, "destroy"), FALSE)

\* The handler from the case label to its first await: the DELETE request goes out.
DeleteStart(c) ==
    /\ Alive
    /\ pc[c] = "body"
    /\ args[c].name = "delete_work_item"
    /\ LET project == TargetProject(args[c], Val(local[c].currentProjectName))
           id == Arg(args[c], "id")
       IN IF ~IsSome(id)
          THEN Throw(c, TRUE, InvalidParams) /\ UNCHANGED local
          ELSE /\ local' = [local EXCEPT ![c].targetProjectName = project]
               /\ Send(c, [NoReq EXCEPT !.kind = "delete", !.method = "DELETE",
                                        !.project = Some(project),
                                        !.workItemId = Val(id),
                                        !.destroy = Destroy(args[c])], "await_delete")
    /\ UNCHANGED <<session, args, resps>>

\* The DELETE request is answered: the outcome is reported.
DeleteResume(c) ==
    /\ Answered(c, "await_delete")
    /\ IF net[c].status = "fail" THEN Throw(c, FALSE, "")
       ELSE Return(c, [kind |-> "deleted", id |-> Val(Arg(args[c], "id")),
                       permanent |-> Destroy(args[c]),
                       recycleBin |-> ~Destroy(args[c])])
    /\ UNCHANGED <<session, args, local>>

----------------------------------------------------------------------------
(* create_work_item *)

\* mutant: the area path is always the target project
AreaPathIgnored(a, targetProjectName) == targetProjectName

\* args.areaPath ?? targetProjectName, and the same for the iteration path
AreaPath(a, targetProjectName) == Coalesce(Arg(a, "areaPath"), targetProjectName)
IterationPath(a, targetProjectName) == Coalesce(Arg(a, "iterationPath"), targetProjectName)

\* patchDocument.push({op: "add", path, value})
Add(path, value) == [op |-> "add", path |-> path, value |-> value]

\* the JSON Patch document that creates the work item
PatchDocument(a, targetProjectName) ==
    <<Add("/fields/System.Title", Text(a, "title")),
      Add("/fields/System.AreaPath", AreaPath(a, targetProjectName)),
      Add("/fields/System.IterationPath", IterationPath(a, targetProjectName))>>
    \o When(Text(a, "description") # << >>,
            Add("/fields/System.Description", Text(a, "description")))
    \o When(Text(a, "assignedTo") # << >>,
            Add("/fields/System.AssignedTo", Text(a, "assignedTo")))
    \o When(Text(a, "tags") # << >>, Add("/fields/System.Tags", Text(a, "tags")))

\* The handler from the case label to its first await: the create request goes out.
CreateStart(c) ==
    /\ Alive
    /\ pc[c] = "body"
    /\ args[c].name = "create_work_item"
    /\ LET project == TargetProject(args[c], Val(local[c].currentProjectName))
       IN IF Text(args[c], "type") = << >> \/ Text(args[c], "title") = << >>
          THEN Throw(c, TRUE, InvalidParams) /\ UNCHANGED local
          ELSE /\ local' = [local EXCEPT ![c].targetProjectName = project]
               /\ Send(c, [NoReq EXCEPT !.kind = "create", !.method = "POST",
                                        !.project = Some(project),
                                        !.type = Text(args[c], "type"),
                                        !.ops = PatchDocument(args[c], project)],
                       "await_create")
    /\ UNCHANGED <<session, args, resps>>

\* The create request is answered: the new work item is reported.
CreateResume(c) ==
    /\ Answered(c, "await_create")
    /\ IF net[c].status = "fail" THEN Throw(c, FALSE, "")
       ELSE Return(c, [kind |-> "created", id |-> net[c].data.id])
    /\ UNCHANGED <<session, args, local>>

----------------------------------------------------------------------------
(* search_work_items of index.ts *)

\* the condition on the title, and on the ID when the text is a number
TitleCondition(queryText) ==
    <<"([System.Title] CONTAINS '">> \o Escape(queryText) \o <<"' ">>
        \o (IF IsNumericId(queryText) THEN <<"OR [System.Id] = ">> \o queryText ELSE << >>)
        \o <<")">>

\* the conditions array, in the order the handler pushes them
BasicConditions(a, targetProjectName) ==
    <<ProjectCondition(targetProjectName)>>
        \o When(Text(a, "workItemType") # << >>,
                Equals("[System.WorkItemType]", Text(a, "workItemType")))
        \o When(Text(a, "query") # << >>, TitleCondition(Text(a, "query")))

\* the query text sent to the remote service (white space of the template aside)
BasicWiql(a, targetProjectName) ==
    <<"SELECT ", "[System.Id], [System.Title], [System.State], [System.WorkItemType]",
      " FROM WorkItems WHERE ">>
        \o Join(BasicConditions(a, targetProjectName), " AND ")
        \o <<" ORDER BY ", "[System.ChangedDate] DESC">>

\* the project segment of wiqlUrl: encodeURIComponent(currentProjectName)
WiqlUrlProject(currentProjectName, targetProjectName) == currentProjectName

\* The handler from the case label to its first await: the query goes out.
BasicSearchStart(c) ==
    /\ Alive
    /\ pc[c] = "body"
    /\ args[c].name = "search_work_items"
    /\ LET currentProjectName == Val(local[c].currentProjectName)
           targetProjectName == Coalesce(Arg(args[c], "projectName"), currentProjectName)
       IN /\ local' = [local EXCEPT ![c].targetProjectName = targetProjectName]
          /\ Send(c, [NoReq EXCEPT
                         !.kind = "wiql", !.method = "POST",
                         !.project = Some(WiqlUrlProject(currentProjectName,
                                                         targetProjectName)),
                         !.query = BasicWiql(args[c], targetProjectName)],
                  "await_query")
    /\ UNCHANGED <<session, args, resps>>

\* workItemRefs.slice(0, 50)
FirstFifty(refs) == SubSeq(refs, 1, SliceIndex(50, Len(refs)))

\* The query is answered: no match is a result of its own, otherwise the first
\* fifty references are fetched in one batch request.
BasicSearchResume(c) ==
    /\ Answered(c, "await_query")
    /\ LET refs == net[c].data.workItems
           requestedFields == Arg(args[c], "fields")
       IN /\ IF net[c].status = "fail" THEN Throw(c, FALSE, "")
             ELSE IF refs = << >>
             THEN Return(c, [kind |-> "none"])
             ELSE Send(c, [NoReq EXCEPT
                              !.kind = "batch", !.method = "POST",
                              !.ids = FirstFifty(refs),
                              !.fields =
                                  IF IsArray(requestedFields)
                                         /\ Val(requestedFields).items # << >>
                                  THEN Some(Val(requestedFields).items)
                                  ELSE Some(<<"System.Id", "System.Title", "System.State",
                                              "System.WorkItemType", "System.AssignedTo">>)],
                       "await_records")
          /\ local' = [local EXCEPT ![c].workItemRefs = refs]
    /\ UNCHANGED <<session, args>>

\* !requestedFields || requestedFields.length === 0: a value that is no array
\* (a number other than 0) is truthy and has no length
NoFields(requestedFields) ==
    \/ ~IsSome(requestedFields)
    \/ Val(requestedFields).type = "array" /\ Val(requestedFields).items = << >>

\* The batch fetch is answered: the records are returned as text or as JSON.
BasicBatchResume(c) ==
    /\ Answered(c, "await_records")
    /\ IF net[c].status = "fail" THEN Throw(c, FALSE, "")
       ELSE Return(c, [kind |-> IF NoFields(Arg(args[c], "fields"))
                                THEN "text" ELSE "json",
                       count |-> Len(net[c].data.workItems)])
    /\ UNCHANGED <<session, args, local>>

----------------------------------------------------------------------------
(* The single-item tools: details, update, comment, links, projects *)

\* a JS value passed where an object is expected: an object with its entries
\* in insertion order, null, or a value of another type
JsObject(entries) == [type |-> "object", entries |-> entries]
JsNull == [type |-> "null", entries |-> << >>]
NotObject == [type |-> "string", entries |-> << >>]

\* typeof v, v being undefined when the argument is not given
TypeOf(v) ==
    IF ~IsSome(v) THEN "undefined"
    ELSE IF Val(v).type = "null" THEN "object"
    ELSE Val(v).type

\* the outcome of Object.keys(v).length === 0 for a v whose typeof is "object":
\* Object.keys(null) throws a TypeError
KeysCheck(v) ==
    IF Val(v).type = "null" THEN "TypeError"
    ELSE IF Val(v).entries = << >> THEN "empty"
    ELSE "filled"

\* if (comment) patchDocument.push({op: "add", path: "/fields/System.History", ...})
PushHistory(comment) ==
    When(comment # << >>,
         [op |-> "add", path |-> <<"/fields/System.History">>, value |-> comment])

\* the JSON Patch document of update_work_item
UpdatePatch(updates, comment) == PatchBody("replace", updates) \o PushHistory(comment)

\* /^[^@\s]+@[^@\s]+\.[^@\s]+$/.test(s): one "@", no white space, and after
\* the "@" a "." that has a character on either side
IsEmail(s) ==
    /\ \A i \in 1 .. Len(s) : s[i] # " "
    /\ \E i \in 2 .. Len(s) :
          /\ s[i] = "@"
          /\ \A j \in 1 .. Len(s) : s[j] = "@" => j = i
          /\ \E j \in i + 2 .. Len(s) - 1 : s[j] = "."

\* updates["System.AssignedTo"]: the value of the last entry with that key
AssignedTo(entries) ==
    LET at == {k \in 1 .. Len(entries) : entries[k][1] = "System.AssignedTo"}
    IN IF at = {} THEN << >>
       ELSE entries[CHOOSE k \in at : \A j \in at : j <= k][2]

\* The update handler from the case label to its first await.  The project is
\* the one the URL names, if it names one.
UpdateSend(c, project, checkEmail) ==
    LET id == Arg(args[c], "id")
        updates == Arg(args[c], "updates")
    IN IF ~IsSome(id) \/ TypeOf(updates) # "object"
       THEN Throw(c, TRUE, InvalidParams)
       ELSE IF KeysCheck(updates) = "TypeError"
       THEN Throw(c, FALSE, "")
       ELSE IF KeysCheck(updates) = "empty"
       THEN Throw(c, TRUE, InvalidParams)
       ELSE IF /\ checkEmail
               /\ AssignedTo(Val(updates).entries) # << >>
               /\ ~IsEmail(AssignedTo(Val(updates).entries))
       THEN Throw(c, TRUE, InvalidParams)
       ELSE Send(c, [NoReq EXCEPT !.kind = "update", !.method = "PATCH",
                                  !.project = project, !.workItemId = Val(id),
                                  !.ops = UpdatePatch(Val(updates).entries,
                                                      Text(args[c], "comment"))],
                 "await_update")

\* update_work_item of index.ts: the URL names no project
UpdateStart(c) ==
    /\ Alive
    /\ pc[c] = "body"
    /\ args[c].name = "update_work_item"
    /\ UpdateSend(c, None, FALSE)
    /\ UNCHANGED <<session, args, local, resps>>

\* update_work_item of version 0.2.0: the assignee must be an e-mail address,
\* and the URL names the default project
UpdateStartV2(c) ==
    /\ Alive
    /\ pc[c] = "body"
    /\ args[c].name = "update_work_item"
    /\ UpdateSend(c, local[c].currentProjectName, TRUE)
    /\ UNCHANGED <<session, args, local, resps>>

\* The PATCH is answered: the update is reported.
UpdateResume(c) ==
    /\ Answered(c, "await_update")
    /\ IF net[c].status = "fail" THEN Throw(c, FALSE, "")
       ELSE Return(c, [kind |-> "updated", id |-> Val(Arg(args[c], "id"))])
    /\ UNCHANGED <<session, args, local>>

\* add_issue_comment from the case label to its first await.  The project is
\* the one the URL names, if it names one.
CommentSend(c, project) ==
    LET workItemId == Arg(args[c], "workItemId")
        comment == Text(args[c], "comment")
    IN IF ~IsSome(workItemId) \/ comment = << >>
       THEN Throw(c, TRUE, InvalidParams)
       ELSE Send(c, [NoReq EXCEPT !.kind = "comment", !.method = "PATCH",
                                  !.project = project,
                                  !.workItemId = Val(workItemId),
                                  !.ops = <<[op |-> "add",
                                             path |-> <<"/fields/System.History">>,
                                             value |-> comment]>>],
                 "await_comment")

\* add_issue_comment of index.ts: the URL names no project
CommentStart(c) ==
    /\ Alive
    /\ pc[c] = "body"
    /\ args[c].name = "add_issue_comment"
    /\ CommentSend(c, None)
    /\ UNCHANGED <<session, args, local, resps>>

\* add_issue_comment of version 0.2.0: the URL names the default project
CommentStartV2(c) ==
    /\ Alive
    /\ pc[c] = "body"
    /\ args[c].name = "add_issue_comment"
    /\ CommentSend(c, local[c].currentProjectName)
    /\ UNCHANGED <<session, args, local, resps>>

\* The PATCH is answered: the comment is reported.
CommentResume(c) ==
    /\ Answered(c, "await_comment")
    /\ IF net[c].status = "fail" THEN Throw(c, FALSE, "")
       ELSE Return(c, [kind |-> "commented", id |-> Val(Arg(args[c], "workItemId"))])
    /\ UNCHANGED <<session, args, local>>

\* the length a commit SHA must have
ShaLength == 40

\* commitSha.length !== 40
ShaInvalid(commitSha) == Len(commitSha) # ShaLength

\* ORG_URL.replace(/\/$/, ''): the URL without its one trailing slash
StripSlash(orgUrl) ==
    IF orgUrl = "https://dev.azure.com/org/" THEN "https://dev.azure.com/org" ELSE orgUrl

\* the URL of the commit the relation points at
CommitUrl(orgUrl, project, repositoryName, commitSha) ==
    Some([origin |-> StripSlash(orgUrl), project |-> project,
          repository |-> repositoryName, commit |-> commitSha])

\* link_commit_to_work_item from the case label to its first await.  The URL
\* of the PATCH names the target project, or no project.
LinkCommitSend(c, inUrl) ==
    LET workItemId == Arg(args[c], "workItemId")
        commitSha == Text(args[c], "commitSha")
        repositoryName == Text(args[c], "repositoryName")
        project == Coalesce(Arg(args[c], "projectName"),
                            Val(local[c].currentProjectName))
        linkComment == Coalesce(Arg(args[c], "comment"), <<"Linked by MCP Server">>)
    IN IF ~IsSome(workItemId) \/ commitSha = << >> \/ repositoryName = << >>
       THEN Throw(c, TRUE, InvalidParams) /\ UNCHANGED local
       ELSE IF ShaInvalid(commitSha)
       THEN Throw(c, TRUE, InvalidParams) /\ UNCHANGED local
       ELSE /\ local' = [local EXCEPT ![c].targetProjectName = project]
            /\ Send(c, [NoReq EXCEPT
                           !.kind = "link", !.method = "PATCH",
                           !.project = IF inUrl THEN Some(project) ELSE None,
                           !.workItemId = Val(workItemId), !.op = "add",
                           !.path = "/relations/-", !.rel = "ArtifactLink",
                           !.url = CommitUrl(env.ORG_URL, project, repositoryName,
                                             commitSha),
                           !.comment = linkComment], "await_commit")

\* link_commit_to_work_item of index.ts: the URL of the PATCH names no project
LinkCommitStart(c) ==
    /\ Alive
    /\ pc[c] = "body"
    /\ args[c].name = "link_commit_to_work_item"
    /\ LinkCommitSend(c, FALSE)
    /\ UNCHANGED <<session, args, resps>>

\* link_commit_to_work_item of version 0.2.0: the URL names the target project
LinkCommitStartV2(c) ==
    /\ Alive
    /\ pc[c] = "body"
    /\ args[c].name = "link_commit_to_work_item"
    /\ LinkCommitSend(c, TRUE)
    /\ UNCHANGED <<session, args, resps>>

\* The PATCH is answered: the link is reported.
LinkCommitResume(c) ==
    /\ Answered(c, "await_commit")
    /\ IF net[c].status = "fail" THEN Throw(c, FALSE, "")
       ELSE Return(c, [kind |-> "linked", id |-> Val(Arg(args[c], "workItemId"))])
    /\ UNCHANGED <<session, args, local>>

\* link_parent_work_item from the case label to its first await
LinkParentStart(c) ==
    /\ Alive
    /\ pc[c] = "body"
    /\ args[c].name = "link_parent_work_item"
    /\ LET childId == Arg(args[c], "childId")
           parentId == Arg(args[c], "parentId")
       IN IF ~IsSome(childId) \/ ~IsSome(parentId)
          THEN Throw(c, TRUE, InvalidParams)
          ELSE Send(c, [NoReq EXCEPT
                           !.kind = "link", !.method = "PATCH",
                           !.project = local[c].currentProjectName,
                           !.workItemId = Val(childId), !.op = "add",
                           !.path = "/relations/-",
                           !.rel = "System.LinkTypes.Hierarchy-Reverse",
                           !.url = Some([origin |-> env.ORG_URL,
                                         workItem |-> Val(parentId)]),
                           !.comment = Text(args[c], "comment")], "await_parent")
    /\ UNCHANGED <<session, args, local, resps>>

\* The PATCH is answered: the parent is reported.
LinkParentResume(c) ==
    /\ Answered(c, "await_parent")
    /\ IF net[c].status = "fail" THEN Throw(c, FALSE, "")
       ELSE Return(c, [kind |-> "parented", id |-> Val(Arg(args[c], "childId")),
                       parent |-> Val(Arg(args[c], "parentId"))])
    /\ UNCHANGED <<session, args, local>>

\* delete_work_item_attachment from the case label to its first await
DeleteAttachmentStart(c) ==
    /\ Alive
    /\ pc[c] = "body"
    /\ args[c].name = "delete_work_item_attachment"
    /\ LET attachmentId == Coalesce(Arg(args[c], "attachmentId"), "")
       IN IF attachmentId = ""
          THEN Throw(c, TRUE, InvalidParams)
          ELSE Send(c, [NoReq EXCEPT !.kind = "deleteAttachment", !.method = "DELETE",
                                     !.id = attachmentId], "await_deleteAttachment")
    /\ UNCHANGED <<session, args, local, resps>>

\* The DELETE is answered: the deletion is reported.
DeleteAttachmentResume(c) ==
    /\ Answered(c, "await_deleteAttachment")
    /\ IF net[c].status = "fail" THEN Throw(c, FALSE, "")
       ELSE Return(c, [kind |-> "deletedAttachment",
                       id |-> Val(Arg(args[c], "attachmentId"))])
    /\ UNCHANGED <<session, args, local>>

\* get_work_item_details from the case label to its first await
DetailsStart(c) ==
    /\ Alive
    /\ pc[c] = "body"
    /\ args[c].name = "get_work_item_details"
    /\ LET id == Arg(args[c], "id")
           requestedFields == Arg(args[c], "fields")
           some == IsArray(requestedFields) /\ Val(requestedFields).items # << >>
       IN IF ~IsSome(id)
          THEN Throw(c, TRUE, InvalidParams)
          ELSE Send(c, [NoReq EXCEPT !.kind = "details", !.method = "GET",
                                     !.workItemId = Val(id),
                                     !.fields = IF some THEN Some(Val(requestedFields).items)
                                                ELSE None,
                                     !.expand = IF some THEN "" ELSE "all"],
                    "await_details")
    /\ UNCHANGED <<session, args, local, resps>>

\* The work item is answered: it is summarised, or returned whole.
DetailsResume(c) ==
    /\ Answered(c, "await_details")
    /\ IF net[c].status = "fail" THEN Throw(c, FALSE, "")
       ELSE Return(c, [kind |-> IF Coalesce(Arg(args[c], "summarize"), FALSE)
                                THEN "summary" ELSE "json",
                       id |-> Val(Arg(args[c], "id"))])
    /\ UNCHANGED <<session, args, local>>

\* list_projects from the case label to its first await
ProjectsStart(c) ==
    /\ Alive
    /\ pc[c] = "body"
    /\ args[c].name = "list_projects"
    /\ Send(c, [NoReq EXCEPT !.kind = "projects", !.method = "GET"], "await_projects")
    /\ UNCHANGED <<session, args, local, resps>>

\* The list is answered: the projects are listed, or none was found.
ProjectsResume(c) ==
    /\ Answered(c, "await_projects")
    /\ IF net[c].status = "fail" THEN Throw(c, FALSE, "")
       ELSE IF net[c].data.projects = << >>
       THEN Return(c, [kind |-> "none", count |-> 0])
       ELSE Return(c, [kind |-> "projects", count |-> Len(net[c].data.projects)])
    /\ UNCHANGED <<session, args, local>>

\* get_project_details from the case label to its first await
ProjectStart(c) ==
    /\ Alive
    /\ pc[c] = "body"
    /\ args[c].name = "get_project_details"
    /\ LET projectIdOrName == Text(args[c], "projectIdOrName")
       IN IF projectIdOrName = << >>
          THEN Throw(c, TRUE, InvalidParams)
          ELSE Send(c, [NoReq EXCEPT !.kind = "project", !.method = "GET",
                                     !.project = Some(projectIdOrName)],
                    "await_project")
    /\ UNCHANGED <<session, args, local, resps>>

\* The project is answered: it is returned whole.
ProjectResume(c) ==
    /\ Answered(c, "await_project")
    /\ IF net[c].status = "fail" THEN Throw(c, FALSE, "")
       ELSE Return(c, [kind |-> "project", name |-> Text(args[c], "projectIdOrName")])
    /\ UNCHANGED <<session, args, local>>

\* the names the ListTools handler announces, and the case labels of the switch
Catalog ==
    {"create_work_item", "get_work_item_details", "update_work_item",
     "search_work_items", "list_projects", "get_project_details",
     "link_commit_to_work_item", "list_work_item_attachments",
     "upload_work_item_attachment", "delete_work_item_attachment",
     "add_issue_comment"}
CaseLabels ==
    {"create_work_item", "get_work_item_details", "update_work_item",
     "search_work_items", "list_projects", "get_project_details",
     "link_commit_to_work_item", "list_work_item_attachments",
     "upload_work_item_attachment", "delete_work_item_attachment",
     "add_issue_comment"}

\* mutant: a name without a case label is taken for a failure of the server
DefaultCodeInternal == InternalError

\* the code of the error the default label throws
DefaultCode == MethodNotFound

\* the names version 0.2.0 announces, which are the case labels of its switch
CaseLabelsV2 ==
    {"create_work_item", "get_work_item_details", "update_work_item",
     "search_work_items", "list_projects", "get_project_details",
     "link_commit_to_work_item", "list_work_item_attachments", "add_issue_comment",
     "link_parent_work_item", "delete_work_item", "get_work_items_batch",
     "batch_update_work_items"}

\* default of version 0.2.0: the name matches no case label
UnknownToolV2(c) ==
    /\ Alive
    /\ pc[c] = "body"
    /\ args[c].name \notin CaseLabelsV2
    /\ Throw(c, TRUE, DefaultCode)
    /\ UNCHANGED <<session, args, local, resps>>

\* default: the name matches no case label
UnknownTool(c) ==
    /\ Alive
    /\ pc[c] = "body"
    /\ args[c].name \notin CaseLabels
    /\ Throw(c, TRUE, DefaultCode)
    /\ UNCHANGED <<session, args, local, resps>>

----------------------------------------------------------------------------
(* Inputs *)

\* buffer.toString('base64') of a buffer of n bytes
Base64Of(n) ==
    LET legal == 4 * (n \div 3) + (IF n % 3 = 0 THEN 0 ELSE (n % 3) + 1)
    IN (IF legal = 0 THEN << >> ELSE <<Run("A", legal)>>) \o
       (IF n % 3 = 0 THEN << >> ELSE <<Run("=", 3 - (n % 3))>>)

\* strings that are not Base64
Malformed == {<<Run("!", 1)>>, <<Run("A", 1)>>, <<Run("A", 2), Run("!", 1), Run("A", 2)>>,
              <<Run("=", 1), Run("A", 4)>>, <<Run("A", 4), Run("!", 2)>>}

SmallContents == {Some(Str(Base64Of(n))) : n \in 0 .. MaxFileSize}
                     \cup {Some(Str(r)) : r \in Malformed} \cup {Some(Num)}
LargeContents == {Some(Str(Base64Of(n))) :
                     n \in {DefaultChunkThreshold, DefaultChunkThreshold + 1}}

UploadBag(content, chunkSize, chunkThreshold, projectArg, comment) ==
    [name |-> "upload_work_item_attachment",
     arguments |-> [workItemId |-> Some(42), fileName |-> Some("a.bin"),
                    fileContentBase64 |-> content, projectName |-> projectArg,
                    comment |-> comment, chunkSize |-> chunkSize,
                    chunkThreshold |-> chunkThreshold]]

Options == {<<None, None>>, <<Some(ProjB), None>>, <<None, Some(<<"note">>)>>}

\* small files against small chunk sizes and thresholds, the large ones against the defaults
UploadArgs ==
    {UploadBag(f, s, t, o[1], o[2]) :
        f \in SmallContents,
        s \in {None} \cup {Some(n) : n \in 0 .. MaxChunkSize},
        t \in {None} \cup {Some(n) : n \in -1 .. MaxChunkSize},
        o \in Options}
    \cup {UploadBag(f, None, None, None, None) : f \in LargeContents}
    \cup {[UploadBag(Some(Str(Base64Of(1))), None, None, None, None)
              EXCEPT !.arguments[f] = v] :
             f \in {"workItemId"}, v \in {None}}
    \cup {[UploadBag(Some(Str(Base64Of(1))), None, None, None, None)
              EXCEPT !.arguments[f] = v] :
             f \in {"fileName"}, v \in {None, Some("")}}
    \cup {UploadBag(None, None, None, None, None)}

----------------------------------------------------------------------------
(* Specifications *)

Init ==
    /\ env \in [ORG_URL : OrgUrls, PAT : Pats]
    /\ axiosInstance = None
    /\ projectName = None
    /\ created = 0
    /\ fetches = 0
    /\ writes = << >>
    /\ pc = [c \in Callers |-> IF c = Main THEN "load" ELSE "idle"]
    /\ args = [c \in Callers |-> NoArgs]
    /\ local = [c \in Callers |-> NoLocal]
    /\ net = [c \in Callers |-> Idle]
    /\ reqs = [c \in Callers |-> << >>]
    /\ resps = [c \in Callers |-> << >>]
    /\ result = [c \in Callers |-> NoResult]

\* startup, and the head of every tool call
Session(callers) ==
    \/ LoadModule
    \/ \E c \in callers : GPN_Check(c)
    \/ \E c \in callers : GPN_Send(c)
    \/ \E c \in callers : GPN_Resume(c)
    \/ \E c \in callers : Respond(c)

Upload(c) ==
    \/ UploadStart(c)
    \/ UploadResume(c)
    \/ InitResume(c)
    \/ ChunkResume(c)
    \/ LinkResume(c)

\* one upload call at a time, over all the upload inputs
Next ==
    \/ Session({Main, 1})
    \/ \E a \in UploadArgs : Arrive(1, a)
    \/ Upload(1)

Spec == Init /\ [][Next]_vars

\* a project name with a quote in it
ProjQuote == <<"o", "'", "b">>

SearchBag(project, type, state, who, tags, createdAfter, updatedAfter, query) ==
    [name |-> "search_work_items",
     arguments |-> [projectName |-> project, workItemType |-> type, state |-> state,
                    assignedTo |-> who, tags |-> tags, createdAfter |-> createdAfter,
                    updatedAfter |-> updatedAfter, query |-> query,
                    fields |-> None, orderBy |-> None, top |-> None]]

\* tags arguments: one tag, several tags, blank and empty pieces, inner blanks, quotes
TagInputs ==
    {<<"a">>, <<"a", ";", "b">>, <<"a", ";", "b", ";", "a">>, <<";">>, <<" ">>,
     <<";", " ", "a", " ", ";", ";", "b", ";">>, <<" ", "a", " ", "b", " ">>,
     <<"'", ";", " ", "'", "a">>, <<" ", ";", " ", ";">>}

\* every combination of given and omitted filters, with quotes in the values,
\* and single filters whose value is empty, blank or not numeric
SearchArgs ==
    {SearchBag(p, t, s, w, g, ca, ua, q) :
        p \in {None, Some(ProjB), Some(ProjQuote), Some(<< >>)},
        t \in {None, Some(<<"a", "'">>)},
        s \in {None, Some(<<"a">>)},
        w \in {None, Some(<<"'">>)},
        g \in {None, Some(<<"a", ";", " ", "'">>)},
        ca \in {None, Some(<<"1">>)},
        ua \in {None, Some(<<"1", "'">>)},
        q \in {None, Some(<<"1", "0">>)}}
    \cup {SearchBag(None, None, None, w, g, None, None, q) :
            w \in {None, Some(<< >>)},
            g \in {None, Some(<<";", " ">>)},
            q \in {None, Some(<<"a", "'">>)}}
    \cup {SearchBag(None, None, None, None, Some(g), None, None, q) :
            g \in TagInputs, q \in {None, Some(<<"a">>)}}

Search(c) ==
    \/ SearchStart(c)
    \/ SearchResume(c)
    \/ BatchResume(c)

\* one search call at a time, over all the search inputs
NextSearch ==
    \/ Session({Main, 1})
    \/ \E a \in SearchArgs : Arrive(1, a)
    \/ Search(1)

SpecSearch == Init /\ [][NextSearch]_vars

\* top arguments: omitted, zero, negative, small, and around the default and the maximum
TopInputs == {None} \cup {Some(n) : n \in (-MaxRefs .. MaxRefs) \cup {50, 200, 201, 250}}

PageArgs ==
    {[SearchBag(None, None, None, None, None, None, None, None) EXCEPT !.arguments.top = t] :
        t \in TopInputs}

\* one search call at a time, over all the top arguments
NextPage ==
    \/ Session({Main, 1})
    \/ \E a \in PageArgs : Arrive(1, a)
    \/ Search(1)

SpecPage == Init /\ [][NextPage]_vars

\* orderBy arguments: omitted, empty, each known field with and without a
\* direction, unknown fields, directions in either case, other second words,
\* and stray blanks
OrderInputs ==
    {None, Some(<< >>), Some(<<"ID">>), Some(<<"ChangedDate">>),
     Some(<<"State", " ", "a", "s", "c">>),
     Some(<<"CreatedDate", " ", "d", "e", "s", "c">>),
     Some(<<"ChangedDate", " ", "A", "S", "C">>),
     Some(<<"Priority">>), Some(<<"Priority", " ", "a", "s", "c">>),
     Some(<<"State", " ", "s", "i", "d", "e">>),
     Some(<<"ID", " ">>), Some(<<"ID", " ", " ", "D", "E", "S", "C">>),
     Some(<<"ID", " ", "a", "s", "c", " ", "x">>),
     Some(<<"constructor">>)}

OrderArgs ==
    {[SearchBag(None, None, None, None, None, None, None, q)
         EXCEPT !.arguments.orderBy = o] :
        o \in OrderInputs, q \in {None, Some(<<"x">>)}}

\* one search call at a time, over all the orderBy arguments
NextOrder ==
    \/ Session({Main, 1})
    \/ \E a \in OrderArgs : Arrive(1, a)
    \/ Search(1)

SpecOrder == Init /\ [][NextOrder]_vars

ListArgs ==
    {[name |-> "list_work_item_attachments",
      arguments |-> [workItemId |-> w, projectName |-> p]] :
        w \in {None, Some(42)}, p \in {None, Some(ProjB)}}

\* searches for the tools specification: no filter, and two tags
FewSearchArgs ==
    {SearchBag(None, None, None, None, g, None, None, None) :
        g \in {None, Some(<<"a", ";", "b">>)}}

\* the IDs 1 .. n
Ids(n) == [i \in 1 .. n |-> i]

GetBatchArgs ==
    {[name |-> "get_work_items_batch",
      arguments |-> [ids |-> i, fields |-> f, asOf |-> None, expand |-> None]] :
        i \in {None, Some(NotArray)}
               \cup {Some(JsArray(Ids(n))) :
                        n \in (0 .. MaxRefs) \cup {MaxBatchIds - 1, MaxBatchIds, MaxBatchIds + 1}},
        f \in {None, Some(<<"System.Id">>)}}
    \cup {[name |-> "get_work_items_batch",
           arguments |-> [ids |-> Some(JsArray(Ids(1))), fields |-> None,
                          asOf |-> a, expand |-> e]] :
             a \in {Some(<< >>), Some(<<"d">>)}, e \in {None, Some("all")}}

\* operations: well-formed ones of each method, and ones that lack their
\* required field, carry it as 0 or empty, or name no supported method
GoodOps ==
    {Operation(Some("PATCH"), Some(5), None, None, Some(<< <<"System.State", "Done">> >>), None),
     Operation(Some("POST"), None, Some(<<"Bug">>), Some(ProjB), None,
               Some(<< <<"System.Title", "t">> >>)),
     Operation(Some("DELETE"), Some(6), None, None, None, None),
     Operation(Some("PATCH"), Some(5), None, None,
               Some(<< <<"System.AreaPath", "Elsewhere">> >>), None)}
BadOps ==
    {Operation(Some("PATCH"), None, None, None, None, None),
     Operation(Some("PATCH"), Some(0), None, None, None, None),
     Operation(Some("POST"), Some(5), None, None, None, None),
     Operation(Some("POST"), None, Some(<< >>), None, None, None),
     Operation(Some("DELETE"), None, Some(<<"Bug">>), None, None, None),
     Operation(Some("PUT"), Some(5), Some(<<"Bug">>), None, None, None),
     Operation(None, Some(5), Some(<<"Bug">>), None, None, None)}

BatchUpdateBag(operations, bypassRules, suppressNotifications) ==
    [name |-> "batch_update_work_items",
     arguments |-> [operations |-> operations, bypassRules |-> bypassRules,
                    suppressNotifications |-> suppressNotifications]]

BatchUpdateArgs ==
    {BatchUpdateBag(o, None, None) :
        o \in {None, Some(NotArray)}
               \cup {Some(JsArray(l)) :
                        l \in UNION {[1 .. n -> GoodOps \cup BadOps] : n \in 0 .. MaxOps}}}
    \cup {BatchUpdateBag(Some(JsArray(<<o>>)), b, n) :
            o \in GoodOps, b \in {Some(TRUE), Some(FALSE)}, n \in {None, Some(TRUE)}}

DeleteArgs ==
    {[name |-> "delete_work_item",
      arguments |-> [id |-> i, destroy |-> d, projectName |-> p]] :
        i \in {None, Some(42)}, d \in {None, Some(FALSE), Some(TRUE)},
        p \in {None, Some(ProjB)}}

CreateBag(type, title, project, areaPath, iterationPath, more) ==
    [name |-> "create_work_item",
     arguments |-> [type |-> type, title |-> title, projectName |-> project,
                    areaPath |-> areaPath, iterationPath |-> iterationPath,
                    description |-> more, assignedTo |-> more, tags |-> more]]

\* every combination of given and omitted project, area path and iteration
\* path, and calls that lack the type or the title
CreateArgs ==
    {CreateBag(Some(<<"Bug">>), Some(<<"X">>), p, a, i, m) :
        p \in {None, Some(ProjB), Some(ProjQuote), Some(<< >>)},
        a \in {None, Some(<<"Area">>), Some(<< >>)},
        i \in {None, Some(<<"Sprint">>), Some(<< >>)},
        m \in {None, Some(<<"m">>)}}
    \cup {CreateBag(t[1], t[2], None, None, None, None) :
            t \in {<<None, Some(<<"X">>)>>, <<Some(<<"Bug">>), None>>,
                   <<Some(<< >>), Some(<<"X">>)>>, <<Some(<<"Bug">>), Some(<< >>)>>}}

\* the inputs of the calls that run side by side
SessionArgs ==
    {UploadBag(Some(Str(Base64Of(2))), None, None, None, None),
     UploadBag(Some(Str(Base64Of(2))), Some(1), Some(1), Some(ProjB), None)}

\* A caller invokes getProjectName() in a configured process: for the first
\* time, again after it has returned, or again after it has thrown.
Resolve(c) ==
    /\ pc[Main] = "gpn"
    /\ pc[c] \in {"idle", "body", "failed"}
    /\ fetches < MaxFetches
    /\ pc' = [pc EXCEPT ![c] = "gpn"]
    /\ result' = [result EXCEPT ![c] = NoResult]
    /\ UNCHANGED <<session, args, local, net, reqs, resps>>

\* getProjectName on its own: callers resolve the default project over and
\* over, side by side, against every answer of the remote service
NextResolve ==
    \/ Session(CallIds)
    \/ \E c \in CallIds : Resolve(c)

SpecResolve == Init /\ [][NextResolve]_vars

\* a commit SHA of n characters
Sha(n) == [i \in 1 .. n |-> "f"]

\* updates arguments: omitted, null, not an object, empty, and maps over
\* ordinary fields, the assignee and the fields that place a work item
UpdateMaps ==
    {<< <<"System.State", <<"Done">> >> >>,
     << <<"System.State", <<"Done">> >>, <<"System.Title", <<"t">> >> >>,
     << <<"System.AssignedTo", <<"a", "@", "b", ".", "c">> >> >>,
     << <<"System.AssignedTo", <<"a", " ", "b">> >> >>,
     << <<"System.AreaPath", <<"Elsewhere">> >> >>,
     << <<"System.IterationPath", <<"Elsewhere">> >> >>,
     << <<"System.TeamProject", ProjB>> >>}
UpdateArgs ==
    {[name |-> "update_work_item",
      arguments |-> [id |-> i, updates |-> u, comment |-> m]] :
        i \in {None, Some(7)},
        u \in {None, Some(JsNull), Some(NotObject), Some(JsObject(<< >>))}
               \cup {Some(JsObject(e)) : e \in UpdateMaps},
        m \in {None, Some(<< >>), Some(<<"note">>)}}

CommentArgs ==
    {[name |-> "add_issue_comment", arguments |-> [workItemId |-> w, comment |-> m]] :
        w \in {None, Some(7)}, m \in {None, Some(<< >>), Some(<<"note">>)}}

LinkCommitArgs ==
    {[name |-> "link_commit_to_work_item",
      arguments |-> [workItemId |-> w, commitSha |-> h, repositoryName |-> r,
                     projectName |-> p, comment |-> m]] :
        w \in {None, Some(7)},
        h \in {None, Some(<< >>), Some(Sha(ShaLength - 1)), Some(Sha(ShaLength)),
               Some(Sha(ShaLength + 1))},
        r \in {None, Some(<< >>), Some(<<"repo">>)},
        p \in {None, Some(ProjB)},
        m \in {None, Some(<<"note">>)}}

LinkParentArgs ==
    {[name |-> "link_parent_work_item",
      arguments |-> [childId |-> w, parentId |-> q, comment |-> m]] :
        w \in {None, Some(7)}, q \in {None, Some(8)}, m \in {None, Some(<<"note">>)}}

DeleteAttachmentArgs ==
    {[name |-> "delete_work_item_attachment", arguments |-> [attachmentId |-> i]] :
        i \in {None, Some(""), Some("att-1")}}

DetailsArgs ==
    {[name |-> "get_work_item_details",
      arguments |-> [id |-> i, fields |-> f, summarize |-> z]] :
        i \in {None, Some(7)},
        f \in {None, Some(NotArray), Some(JsArray(<< >>)), Some(JsArray(<<"System.Title">>))},
        z \in {None, Some(FALSE), Some(TRUE)}}

ProjectsArgs == {[name |-> "list_projects", arguments |-> << >>]}

ProjectArgs ==
    {[name |-> "get_project_details", arguments |-> [projectIdOrName |-> p]] :
        p \in {None, Some(<< >>), Some(ProjB)}}

\* names that version 0.2.0 does not know: the attachment tools of index.ts,
\* and no tool at all
UnknownArgsV2 ==
    DeleteAttachmentArgs \cup SessionArgs
        \cup {[name |-> n, arguments |-> [id |-> Some(7)]] : n \in {"no_such_tool", ""}}

ToolArgs ==
    ListArgs \cup FewSearchArgs \cup GetBatchArgs \cup BatchUpdateArgs
        \cup DeleteArgs \cup CreateArgs \cup UpdateArgs \cup CommentArgs
        \cup LinkCommitArgs \cup LinkParentArgs \cup DetailsArgs
        \cup ProjectsArgs \cup ProjectArgs \cup UnknownArgsV2

\* the switch of version 0.2.0 but for its search_work_items: one disjunct
\* per case label, and the default
Tool(c) ==
    \/ ListStart(c)
    \/ ListResume(c)
    \/ GetBatchStart(c)
    \/ GetBatchResume(c)
    \/ BatchUpdateStart(c)
    \/ BatchUpdateResume(c)
    \/ DeleteStart(c)
    \/ DeleteResume(c)
    \/ CreateStart(c)
    \/ CreateResume(c)
    \/ UpdateStartV2(c)
    \/ UpdateResume(c)
    \/ CommentStartV2(c)
    \/ CommentResume(c)
    \/ LinkCommitStartV2(c)
    \/ LinkCommitResume(c)
    \/ LinkParentStart(c)
    \/ LinkParentResume(c)
    \/ DetailsStart(c)
    \/ DetailsResume(c)
    \/ ProjectsStart(c)
    \/ ProjectsResume(c)
    \/ ProjectStart(c)
    \/ ProjectResume(c)
    \/ UnknownToolV2(c)

\* one tool call at a time, over the inputs of every tool of version 0.2.0
\* and over names it does not know
NextTools ==
    \/ Session({Main, 1})
    \/ \E a \in ToolArgs : Arrive(1, a)
    \/ Search(1)
    \/ Tool(1)

SpecTools == Init /\ [][NextTools]_vars

\* startup and up to MaxCalls tool calls in progress at once
NextSession ==
    \/ Session(Callers)
    \/ \E c \in CallIds : \E a \in SessionArgs : Arrive(c, a)
    \/ \E c \in CallIds : Upload(c)

SpecSession == Init /\ [][NextSession]_vars

\* every request eventually returns, and Node runs every continuation that is ready
FairSpec == Spec /\ WF_vars(Respond(1)) /\ WF_vars(Upload(1))

\* searches of index.ts: with and without each of its filters
BasicSearchArgs ==
    {[name |-> "search_work_items",
      arguments |-> [projectName |-> p, workItemType |-> t, query |-> q, fields |-> f]] :
        p \in {None, Some(ProjA), Some(ProjB), Some(ProjQuote)},
        t \in {None, Some(<<"Bug">>)},
        q \in {None, Some(<<"x", "'">>), Some(<<"1", "0">>)},
        f \in {None, Some(JsArray(<<"System.Title">>))}}
    \cup {[name |-> "search_work_items",
           arguments |-> [projectName |-> None, workItemType |-> None, query |-> q,
                          fields |-> f]] :
            q \in {None, Some(<<"1", "0">>)},
            f \in {Some(NotArray), Some(JsArray(<< >>))}}

\* names that no case label matches: tools of a later version, and no tool at all
UnknownArgs ==
    {[name |-> n, arguments |-> [id |-> Some(7)]] :
        n \in {"delete_work_item", "get_work_items_batch", "no_such_tool", ""}}

DispatchArgs ==
    CreateArgs \cup DetailsArgs \cup UpdateArgs \cup BasicSearchArgs \cup ProjectsArgs
        \cup ProjectArgs \cup LinkCommitArgs \cup ListArgs \cup SessionArgs
        \cup DeleteAttachmentArgs \cup CommentArgs \cup UnknownArgs

\* the switch of index.ts: one disjunct per case label, and the default
Dispatch(c) ==
    \/ CreateStart(c)
    \/ CreateResume(c)
    \/ DetailsStart(c)
    \/ DetailsResume(c)
    \/ UpdateStart(c)
    \/ UpdateResume(c)
    \/ BasicSearchStart(c)
    \/ BasicSearchResume(c)
    \/ BasicBatchResume(c)
    \/ ProjectsStart(c)
    \/ ProjectsResume(c)
    \/ ProjectStart(c)
    \/ ProjectResume(c)
    \/ LinkCommitStart(c)
    \/ LinkCommitResume(c)
    \/ ListStart(c)
    \/ ListResume(c)
    \/ Upload(c)
    \/ DeleteAttachmentStart(c)
    \/ DeleteAttachmentResume(c)
    \/ CommentStart(c)
    \/ CommentResume(c)
    \/ UnknownTool(c)

\* one tool call at a time, over the inputs of every tool of index.ts and
\* over names it does not know
NextDispatch ==
    \/ Session({Main, 1})
    \/ \E a \in DispatchArgs : Arrive(1, a)
    \/ Dispatch(1)

SpecDispatch == Init /\ [][NextDispatch]_vars

----------------------------------------------------------------------------
(* Properties of the chunked upload sequencer *)

UploadCalls == {c \in CallIds : args[c].name = "upload_work_item_attachment"}

\* the requests of a kind that a call has sent, in order
Sent(c, kind) == SelectSeq(reqs[c], LAMBDA r : r.kind = kind)

\* positions of a call at which the upload handler has passed its first await
Sequencing == {"await_upload", "await_init", "await_chunk", "await_link", "done", "failed"}

\* the caller's view of its arguments
ContentOf(c) == Arg(args[c], "fileContentBase64")
DecodedLength(c) == BufferFromBase64(Val(ContentOf(c))).length
ThresholdOf(c) == Coalesce(Arg(args[c], "chunkThreshold"), DefaultChunkThreshold)
ChunkSizeOf(c) == Coalesce(Arg(args[c], "chunkSize"), DefaultChunkSize)
Decodes(c) == IsSome(ContentOf(c)) /\ Val(ContentOf(c)).type = "string"
\* workItemId, fileName and fileContentBase64 are given and not empty
RequiredGiven(c) ==
    /\ IsSome(Arg(args[c], "workItemId"))
    /\ Coalesce(Arg(args[c], "fileName"), "") # ""
    /\ ~Falsy(ContentOf(c))

\* the history of the call is complete
Logged(c) == Len(reqs[c]) < MaxLog

\* C1 (as claimed): on the chunked path, for every buffer length above the threshold
\* and every chunk size, the byte ranges [start, end] of the chunk requests, which
\* are the bytes they carry and the ranges their Content-Range headers announce
\* with total = length, are consecutive from 0, hold between 1 and chunkSize bytes,
\* stay inside [0, length), and once the loop has ended the last one ends at length - 1.
C1_ChunksPartitionBuffer ==
    \A c \in UploadCalls :
        LET ch == Sent(c, "chunk") IN
        /\ \A i \in 1 .. Len(ch) :
              /\ ch[i].start <= ch[i].end
              /\ ch[i].end - ch[i].start + 1 <= ChunkSizeOf(c)
              /\ ch[i].end <= DecodedLength(c) - 1
              /\ ch[i].total = DecodedLength(c)
              /\ ch[i].from = ch[i].start /\ ch[i].to = ch[i].end + 1
              /\ ch[i].start = IF i = 1 THEN 0 ELSE ch[i - 1].end + 1
        /\ (pc[c] \in {"await_link", "done"} /\ Len(ch) > 0)
              => ch[Len(ch)].end = DecodedLength(c) - 1

\* C2: a buffer no longer than the threshold (the default one when none is given)
\* goes out in exactly one upload request that carries the whole buffer; no
\* initiate request and no chunk request is ever sent for it.
C2_SingleShotAtOrBelowThreshold ==
    \A c \in UploadCalls :
        (/\ pc[c] \in Sequencing /\ RequiredGiven(c)
         /\ Decodes(c) /\ DecodedLength(c) <= ThresholdOf(c))
            => /\ Len(Sent(c, "upload")) = 1
               /\ Sent(c, "upload")[1].from = 0
               /\ Sent(c, "upload")[1].to = DecodedLength(c)
               /\ Sent(c, "init") = << >>
               /\ Sent(c, "chunk") = << >>

\* C2 witness: a buffer exactly as long as the threshold was uploaded and linked.
C2_Witness ==
    \E c \in UploadCalls :
        /\ pc[c] = "done"
        /\ DecodedLength(c) = ThresholdOf(c)
        /\ Len(Sent(c, "upload")) = 1

\* C3 (as claimed): chunk requests go out one at a time, each after the answer to
\* the request before it was observed (so the first after the initiate request
\* returned the attachment ID), in strictly ascending order of start offset.
C3_ChunksSequentialAscending ==
    \A c \in UploadCalls :
        /\ Len(reqs[c]) - Len(resps[c]) \in {0, 1}
        /\ \A i \in 1 .. Len(reqs[c]) :
              reqs[c][i].kind = "chunk"
                  => /\ i > 1
                     /\ resps[c][i - 1].status = "ok"
                     /\ reqs[c][i - 1].kind \in {"init", "chunk"}
                     /\ reqs[c][i].id = resps[c][1].id
                     /\ reqs[c][1].kind = "init"
                     /\ reqs[c][i - 1].kind = "chunk"
                            => reqs[c][i - 1].start < reqs[c][i].start

\* C4: a failed initiate or chunk request is the last request of its call: the
\* call ends in an error and sends no retry, no further chunk, no link request
\* and no delete request.
C4_FailureAborts ==
    \A c \in UploadCalls :
        /\ \A i \in 1 .. Len(resps[c]) :
              (resps[c][i].status = "fail" /\ reqs[c][i].kind \in {"init", "chunk"})
                  => /\ i = Len(reqs[c])
                     /\ pc[c] = "failed"
                     /\ result[c].status = "error"
                     /\ net[c].status = "none"
        /\ (net[c].status = "fail" /\ net[c].kind \in {"init", "chunk"} /\ Logged(c))
              => /\ Len(resps[c]) = Len(reqs[c]) - 1
                 /\ result[c].status = "none"

\* C4 witness: the second chunk of a call failed and the call ended in an error.
C4_Witness ==
    \E c \in UploadCalls :
        /\ pc[c] = "failed"
        /\ Len(Sent(c, "chunk")) = 2
        /\ resps[c][Len(resps[c])].status = "fail"
        /\ reqs[c][Len(reqs[c])].kind = "chunk"
        /\ reqs[c][Len(reqs[c])].end < DecodedLength(c) - 1

\* C5: a call sends at most one link request; it appends an AttachedFile relation
\* to the target WorkItem whose URL is the attachment URL and whose comment is the
\* caller's (or the default); every request before it was answered with success;
\* and a call that returned a result has sent it and seen it succeed.
C5_OneLinkAfterUploads ==
    \A c \in UploadCalls :
        LET links == {i \in 1 .. Len(reqs[c]) : reqs[c][i].kind = "link"} IN
        /\ Cardinality(links) <= 1
        /\ \A i \in links :
              /\ i = Len(reqs[c])
              /\ i > 1
              /\ \A j \in 1 .. (i - 1) :
                    resps[c][j].status = "ok" /\ reqs[c][j].kind \in {"upload", "init", "chunk"}
              /\ reqs[c][i].op = "add" /\ reqs[c][i].path = "/relations/-"
              /\ reqs[c][i].rel = "AttachedFile"
              /\ reqs[c][i].workItemId = Val(Arg(args[c], "workItemId"))
              /\ reqs[c][i].comment =
                    Coalesce(Arg(args[c], "comment"),
                             <<"Attached ", Val(Arg(args[c], "fileName")), " via MCP">>)
              /\ IsSome(reqs[c][i].url)
              /\ Val(reqs[c][i].url).id = resps[c][1].id
              /\ reqs[c][1].kind = "upload" => reqs[c][i].url = ServerUrl(resps[c][1].id)
              /\ reqs[c][1].kind = "init" =>
                    /\ Val(reqs[c][i].url).origin = env.ORG_URL
                    /\ \/ Sent(c, "chunk") = << >> /\ DecodedLength(c) <= 0
                       \/ reqs[c][i - 1].kind = "chunk"
                              /\ reqs[c][i - 1].end = DecodedLength(c) - 1
        /\ (pc[c] = "done" /\ Logged(c))
              => /\ Cardinality(links) = 1
                 /\ resps[c][Len(reqs[c])].status = "ok"
                 /\ Val(result[c].value).url = reqs[c][Len(reqs[c])].url

\* C5 witness: a chunked upload of several chunks was linked and returned.
C5_Witness ==
    \E c \in UploadCalls :
        /\ pc[c] = "done"
        /\ Len(Sent(c, "chunk")) >= 2
        /\ Len(Sent(c, "link")) = 1
        /\ IsSome(Arg(args[c], "comment"))

\* C5 second case: a single-shot upload was linked and returned.
SingleShotLinked ==
    \E c \in UploadCalls :
        pc[c] = "done" /\ Len(Sent(c, "upload")) = 1 /\ Len(Sent(c, "link")) = 1

\* C6 (as claimed): every upload call whose requests all return reaches a final
\* result, whatever its buffer, chunkSize and chunkThreshold.
C6_UploadTerminates ==
    \A c \in {1} : (pc[c] = "body") ~> (pc[c] \in {"done", "failed"})

\* RFC 4648 Base64: characters of the alphabet in groups of four, the last group
\* padded with one or two pads
WellFormedBase64(runs) ==
    \/ runs = << >>
    \/ Len(runs) = 1 /\ runs[1].ch = "A" /\ runs[1].n % 4 = 0
    \/ /\ Len(runs) = 2 /\ runs[1].ch = "A" /\ runs[2].ch = "="
       /\ runs[2].n \in {1, 2} /\ (runs[1].n + runs[2].n) % 4 = 0

\* C7 (as claimed): a call whose fileContentBase64 is not Base64 fails with
\* InvalidParams and sends no request.
C7_MalformedBase64Rejected ==
    \A c \in UploadCalls :
        (/\ pc[c] \notin {"idle", "gpn", "gpn_inst", "gpn_wait", "body"}
         /\ RequiredGiven(c)
         /\ ~(Decodes(c) /\ WellFormedBase64(Val(ContentOf(c)).runs)))
            => /\ pc[c] = "failed"
               /\ result[c].code = InvalidParams
               /\ reqs[c] = << >>

----------------------------------------------------------------------------
(* Properties of the session provider *)

\* C8: a resolution of the default project that starts once the memo is set
\* returns the memoized name, sends no request and leaves the memo alone; the
\* client is created once and never replaced.
C8_MemoReused ==
    [][/\ IsSome(axiosInstance) => (axiosInstance' = axiosInstance /\ created' = created)
       /\ created' <= 1
       /\ \A c \in Callers :
             (pc[c] = "gpn" /\ pc'[c] # "gpn" /\ IsSome(projectName))
                 => /\ pc'[c] = Returned(c)
                    /\ local'[c].currentProjectName = projectName
                    /\ projectName' = projectName
                    /\ fetches' = fetches
                    /\ reqs'[c] = reqs[c]]_vars

\* C8 witness: two tool calls have resolved the project after startup on one fetch.
C8_Witness ==
    /\ fetches = 1 /\ created = 1
    /\ \E c, d \in CallIds :
          /\ c # d
          /\ local[c].currentProjectName = projectName
          /\ local[d].currentProjectName = projectName
          /\ IsSome(projectName)

\* C9: the memoized default project is assigned at most once, whatever the
\* interleaving of the callers, and no caller has a fetch under way once it is set.
C9_PopulatedOnce ==
    /\ Len(writes) <= 1
    /\ IsSome(projectName) => \A c \in Callers : pc[c] \notin {"gpn_inst", "gpn_wait"}

\* C9 witness: the memo was assigned once and two calls are past or at their own
\* resolution of the project at the same time.
C9_Witness ==
    /\ Len(writes) = 1
    /\ projectName = Some(writes[1])
    /\ \E c, d \in CallIds : c # d /\ pc[c] = "gpn" /\ pc[d] \in {"gpn", "body"}

----------------------------------------------------------------------------
(* Properties of the query builder *)

SearchCalls == {c \in CallIds : args[c].name = "search_work_items"}

\* the text between WHERE and ORDER BY of a query
WhereClause(query) ==
    LET w == CHOOSE i \in 1 .. Len(query) : query[i] = " FROM WorkItems WHERE "
        o == CHOOSE i \in 1 .. Len(query) : query[i] = " ORDER BY "
    IN SubSeq(query, w + 1, o - 1)

\* the value a quoted literal of the query language denotes: '' reads as one
\* quote; a quote on its own ends the literal, so it denotes no value
RECURSIVE Denotes(_, _)
Denotes(body, value) ==
    IF body = << >> THEN value = << >>
    ELSE IF Head(body) = "'"
         THEN /\ Len(body) >= 2 /\ body[2] = "'"
              /\ value # << >> /\ Head(value) = "'"
              /\ Denotes(SubSeq(body, 3, Len(body)), Tail(value))
         ELSE /\ value # << >> /\ Head(value) = Head(body)
              /\ Denotes(Tail(body), Tail(value))

\* the project the caller asked for: its projectName, else the memoized default
AskedProject(c) ==
    IF IsSome(Arg(args[c], "projectName")) THEN Val(Arg(args[c], "projectName"))
    ELSE Val(projectName)

\* C10: whatever filters are given, the WHERE clause of the query that is sent
\* starts with [System.TeamProject] = '<project>', the literal denoting the
\* project asked for, and that predicate is a conjunct of its own: the clause
\* ends there or goes on with AND.
C10_ProjectScopeFirst ==
    \A c \in SearchCalls :
        \A i \in 1 .. Len(reqs[c]) :
            reqs[c][i].kind = "wiql" =>
                LET w == WhereClause(reqs[c][i].query)
                    n == Len(AskedProject(c))
                       + Cardinality({k \in 1 .. Len(AskedProject(c)) : AskedProject(c)[k] = "'"})
                IN /\ Len(w) >= n + 3
                   /\ w[1] = "[System.TeamProject]" /\ w[2] = " = '"
                   /\ Denotes(SubSeq(w, 3, n + 2), AskedProject(c))
                   /\ w[n + 3] = "'"
                   /\ (Len(w) = n + 3 \/ w[n + 4] = " AND ")

\* C10 witness: a query went out with no filter at all and no projectName, and
\* its WHERE clause is the project predicate alone.
C10_Witness ==
    \E c \in SearchCalls :
        /\ Len(reqs[c]) >= 1 /\ reqs[c][1].kind = "wiql"
        /\ \A f \in DOMAIN args[c].arguments : args[c].arguments[f] = None
        /\ WhereClause(reqs[c][1].query) = ProjectCondition(Val(projectName))

\* a query went out with every filter given and a projectName with a quote in it
AllFiltersGiven ==
    \E c \in SearchCalls :
        /\ Len(reqs[c]) >= 1 /\ reqs[c][1].kind = "wiql"
        /\ Arg(args[c], "projectName") = Some(ProjQuote)
        /\ \A f \in {"workItemType", "state", "assignedTo", "tags", "createdAfter",
                     "updatedAfter", "query"} : Text(args[c], f) # << >>
        /\ Len(Conditions(args[c], ProjQuote)) = 8

\* the trimmed non-empty tags a tags argument lists, in input order
NonBlank(piece) == \E i \in 1 .. Len(piece) : piece[i] # " "
Trimmed(piece) ==
    LET first == CHOOSE i \in 1 .. Len(piece) :
                     piece[i] # " " /\ \A j \in 1 .. (i - 1) : piece[j] = " "
        last == CHOOSE i \in 1 .. Len(piece) :
                     piece[i] # " " /\ \A j \in (i + 1) .. Len(piece) : piece[j] = " "
    IN SubSeq(piece, first, last)
ListedTags(tags) ==
    LET kept == SelectSeq(Split(tags, ";"), NonBlank)
    IN [k \in 1 .. Len(kept) |-> Trimmed(kept[k])]

\* the length of the quoted literal that denotes a value
LiteralLen(value) == Len(value) + Cardinality({k \in 1 .. Len(value) : value[k] = "'"})

\* the position of the k-th occurrence of a token in a text
NthPos(text, token, k) ==
    CHOOSE i \in 1 .. Len(text) :
        /\ text[i] = token
        /\ Cardinality({j \in 1 .. (i - 1) : text[j] = token}) = k - 1

TagClause == "[System.Tags] CONTAINS '"

\* C11: a tags argument that lists N trimmed non-empty tags puts N tag clauses in
\* the WHERE clause of the query, none when N = 0; they stand in input order,
\* each on the literal denoting its tag, joined with OR inside one pair of
\* parentheses that is a conjunct of the clause.
C11_TagsDisjunction ==
    \A c \in SearchCalls :
        \A i \in 1 .. Len(reqs[c]) :
            reqs[c][i].kind = "wiql" =>
                LET w == WhereClause(reqs[c][i].query)
                    listed == ListedTags(Text(args[c], "tags"))
                    N == Len(listed)
                    at(k) == NthPos(w, TagClause, k)
                    close(k) == at(k) + LiteralLen(listed[k]) + 1
                IN /\ Cardinality({j \in 1 .. Len(w) : w[j] = TagClause}) = N
                   /\ \A k \in 1 .. N :
                         /\ close(k) + 1 <= Len(w)
                         /\ Denotes(SubSeq(w, at(k) + 1, close(k) - 1), listed[k])
                         /\ w[close(k)] = "'"
                         /\ w[close(k) + 1] = IF k < N THEN " OR " ELSE ")"
                         /\ k < N => at(k + 1) = close(k) + 2
                   /\ N >= 1 => /\ at(1) >= 3
                                /\ w[at(1) - 1] = "(" /\ w[at(1) - 2] = " AND "
                                /\ (close(N) + 1 = Len(w) \/ w[close(N) + 2] = " AND ")

\* C11 witness: a query went out for a tags argument with empty and blank pieces
\* around two tags.
C11_Witness ==
    \E c \in SearchCalls :
        /\ Len(reqs[c]) >= 1 /\ reqs[c][1].kind = "wiql"
        /\ Text(args[c], "tags") = <<";", " ", "a", " ", ";", ";", "b", ";">>
        /\ ListedTags(Text(args[c], "tags")) = << <<"a">>, <<"b">> >>

\* a query went out for a tags argument that lists no tag
NoTagListed ==
    \E c \in SearchCalls :
        /\ Len(reqs[c]) >= 1 /\ reqs[c][1].kind = "wiql"
        /\ Text(args[c], "tags") = <<" ", ";", " ", ";">>
        /\ Len(Conditions(args[c], AskedProject(c))) = 1

\* the conjuncts of a WHERE clause
Conjuncts(where) == Split(where, " AND ")

\* a filter is supplied when its argument is given and not empty
Supplied(a, f) == Text(a, f) # << >>

\* a predicate that ends in the quoted literal denoting the value, after a head of
\* headLen tokens
WellQuoted(conjunct, headLen, value) ==
    /\ Len(conjunct) = headLen + LiteralLen(value) + 1
    /\ Denotes(SubSeq(conjunct, headLen + 1, Len(conjunct) - 1), value)
    /\ conjunct[Len(conjunct)] = "'"

\* the filters of a call that add a predicate, in the order of the WHERE clause
FiltersOf(a) ==
    SelectSeq(<<"workItemType", "state", "assignedTo", "tags", "createdAfter",
                "updatedAfter", "query">>,
              LAMBDA f : Supplied(a, f) /\ (f = "tags" => ListedTags(Text(a, f)) # << >>))

\* C12 (as claimed): the WHERE clause is the conjunction of the project predicate
\* and one predicate per supplied filter, and in each of them the literal that
\* carries the caller's value denotes exactly that value: every quote in it is doubled.
C12_FilterValuesEscaped ==
    \A c \in SearchCalls :
        \A i \in 1 .. Len(reqs[c]) :
            reqs[c][i].kind = "wiql" =>
                LET a == args[c]
                    conj == Conjuncts(WhereClause(reqs[c][i].query))
                    filters == FiltersOf(a)
                IN /\ Len(conj) = 1 + Len(filters)
                   /\ WellQuoted(conj[1], 2, AskedProject(c))
                   /\ \A k \in 1 .. Len(filters) :
                         LET f == filters[k]
                             p == conj[k + 1]
                             v == Text(a, f)
                         IN CASE f \in {"workItemType", "state", "assignedTo"} ->
                                     WellQuoted(p, 2, v)
                              [] f \in {"createdAfter", "updatedAfter"} ->
                                     WellQuoted(p, 1, v)
                              [] f = "tags" ->
                                     Cardinality({j \in 1 .. Len(p) : p[j] = TagClause})
                                         = Len(ListedTags(v))
                              [] f = "query" ->
                                     /\ p[1] = "([System.Title] CONTAINS '"
                                     /\ Denotes(SubSeq(p, 2, 1 + LiteralLen(v)), v)
                                     /\ p[2 + LiteralLen(v)] = "' "
                                     /\ Denotes(SubSeq(p, Len(p) - LiteralLen(v), Len(p) - 1), v)
                                     /\ p[Len(p)] = "')"

----------------------------------------------------------------------------
(* Properties of the result page *)

\* the references the query of a call matched, once the handler has seen them
Matched(c) == local[c].workItemRefs
TopOf(c) == Arg(args[c], "top")

\* the query of the call was answered with at least one reference and the
\* handler has gone on from there
PastQuery(c) ==
    /\ pc[c] \in {"await_batch", "done", "failed"}
    /\ Len(resps[c]) >= 1 /\ resps[c][1].status = "ok"
    /\ Matched(c) # << >>

\* C13 (as claimed): for every top and every non-empty list of matched references
\* one batch fetch goes out; it carries the first min(count, cap) matched IDs in
\* the order of the query, cap being top (50 when top is omitted) and at most 200.
C13_PageIsFirstCapIds ==
    \A c \in SearchCalls :
        PastQuery(c) =>
            LET cap == Min(IF IsSome(TopOf(c)) THEN Val(TopOf(c)) ELSE 50, 200)
                n == Min(Len(Matched(c)), cap)
            IN /\ Len(Sent(c, "batch")) = 1
               /\ Len(Sent(c, "batch")[1].ids) = n
               /\ \A k \in 1 .. n : Sent(c, "batch")[1].ids[k] = Matched(c)[k]
               /\ n <= 200

\* a search call has returned a result, and one that lists work items
Finished(c) == pc[c] = "done" /\ Len(resps[c]) >= 1 /\ resps[c][1].status = "ok"
Found(c) == Finished(c) /\ Val(result[c].value).kind = "found"

\* the page of a call: the IDs it fetched, none when it sent no batch fetch
Page(c) == IF Sent(c, "batch") = << >> THEN << >> ELSE Sent(c, "batch")[1].ids

\* C14 (as claimed): every result a search returns reports as total the number of
\* references the query returned, and its has-more flag is set exactly when
\* references exist beyond the page that was fetched (a result with no listing
\* reports a total of 0 and no more); for top omitted or top >= 1 that is exactly
\* when the total exceeds the cap min(top, 200), 50 by default.
C14_HasMoreIffBeyondPage ==
    \A c \in SearchCalls :
        Finished(c) =>
            LET r == Val(result[c].value)
            IN /\ r.totalCount = Len(Matched(c))
               /\ r.hasMoreResults <=> Len(Matched(c)) > Len(Page(c))
               /\ (TopOf(c) = None) => (r.hasMoreResults <=> Len(Matched(c)) > 50)
               /\ (IsSome(TopOf(c)) /\ Val(TopOf(c)) >= 1)
                     => (r.hasMoreResults <=> Len(Matched(c)) > Min(Val(TopOf(c)), 200))

\* 201 references matched under top 250; the page holds 200 of them, fewer
\* records came back, and the result reports 201 in total with more to come
TotalCountsReferences ==
    \E c \in SearchCalls :
        /\ Found(c)
        /\ TopOf(c) = Some(250)
        /\ Len(Matched(c)) = 201
        /\ Val(result[c].value).returnedCount < 200
        /\ Val(result[c].value).hasMoreResults

\* a full page with nothing beyond it: 50 matches under the default cap
FullPageNoMore ==
    \E c \in SearchCalls :
        /\ Found(c) /\ TopOf(c) = None /\ Len(Matched(c)) = 50
        /\ ~Val(result[c].value).hasMoreResults

----------------------------------------------------------------------------
(* Properties of the other tools *)

CallsOf(name) == {c \in CallIds : args[c].name = name}

\* the answer the handler saw to its k-th request
SawOk(c, k) == Len(resps[c]) >= k /\ resps[c][k].status = "ok"

\* C15: a search whose query is answered with no reference returns a result that
\* says nothing matched and sends no batch fetch; a listing whose work item has
\* no AttachedFile relation returns a result that says none was found. Neither
\* call ends in an error.
C15_EmptyIsSuccess ==
    /\ \A c \in SearchCalls :
          (/\ pc[c] \notin {"idle", "gpn", "gpn_inst", "gpn_wait", "body", "await_wiql"}
           /\ SawOk(c, 1) /\ Matched(c) = << >>)
              => /\ pc[c] = "done"
                 /\ result[c].status = "ok"
                 /\ Val(result[c].value).kind = "none"
                 /\ Sent(c, "batch") = << >>
    /\ \A c \in CallsOf("list_work_item_attachments") :
          (pc[c] = "done" \/ (pc[c] = "failed" /\ SawOk(c, 1)))
              => LET relations == Coalesce(local[c].workItemData, << >>)
                     attached == {k \in 1 .. Len(relations) : relations[k].rel = "AttachedFile"}
                 IN /\ pc[c] = "done"
                    /\ result[c].status = "ok"
                    /\ Val(result[c].value).kind = IF attached = {} THEN "none" ELSE "listed"
                    /\ Val(result[c].value).kind = "listed"
                          => Len(Val(result[c].value).attachments) = Cardinality(attached)

\* C15 witness: a listing returned the none-found result for a work item whose
\* only relation is a link to another work item.
C15_Witness ==
    \E c \in CallsOf("list_work_item_attachments") :
        /\ pc[c] = "done"
        /\ Val(result[c].value).kind = "none"
        /\ IsSome(local[c].workItemData) /\ Len(Val(local[c].workItemData)) = 1
        /\ Len(reqs[c]) = 1 /\ reqs[c][1].expand = "relations"

\* a search with two tags returned the no-match result after one request
SearchFoundNothing ==
    \E c \in SearchCalls :
        /\ pc[c] = "done" /\ Val(result[c].value).kind = "none"
        /\ Text(args[c], "tags") = <<"a", ";", "b">>
        /\ Len(reqs[c]) = 1

\* the ids argument of a call is an array of 1 to 200 IDs
IdsAccepted(c) ==
    /\ IsArray(Arg(args[c], "ids"))
    /\ Len(Val(Arg(args[c], "ids")).items) \in 1 .. 200

\* the handler of the call has run its code up to the first request or the first throw
Started(c) == pc[c] \notin {"idle", "gpn", "gpn_inst", "gpn_wait", "body"}

\* C16: an ids list of 1 to 200 IDs leads to exactly one batch fetch carrying
\* those IDs in order; a list of 201 or more, an empty list, a value that is not
\* an array or no ids at all is refused with InvalidParams and no request is sent.
C16_BatchGetLimit ==
    \A c \in CallsOf("get_work_items_batch") :
        Started(c) =>
            IF IdsAccepted(c)
            THEN /\ Len(reqs[c]) = 1
                 /\ reqs[c][1].kind = "batch"
                 /\ reqs[c][1].ids = Val(Arg(args[c], "ids")).items
            ELSE /\ pc[c] = "failed"
                 /\ result[c].code = InvalidParams
                 /\ reqs[c] = << >>

\* C16 witness: a list of exactly 200 IDs was fetched in one request.
C16_Witness ==
    \E c \in CallsOf("get_work_items_batch") :
        /\ pc[c] = "done"
        /\ Len(Val(Arg(args[c], "ids")).items) = 200
        /\ Len(reqs[c]) = 1 /\ Len(reqs[c][1].ids) = 200

\* a list of 201 IDs was refused
OverLimitRefused ==
    \E c \in CallsOf("get_work_items_batch") :
        /\ pc[c] = "failed" /\ reqs[c] = << >>
        /\ IsArray(Arg(args[c], "ids")) /\ Len(Val(Arg(args[c], "ids")).items) = 201

\* the operations of a call, when they are a non-empty array
OperationsOf(c) == Val(Arg(args[c], "operations")).items
HasOperations(c) == IsArray(Arg(args[c], "operations")) /\ OperationsOf(c) # << >>

\* an operation lacks its required field (absent, 0 or empty counts as lacking)
\* or names a method that is not supported
MalformedOp(op) ==
    \/ op.method \notin {Some("PATCH"), Some("POST"), Some("DELETE")}
    \/ op.method \in {Some("PATCH"), Some("DELETE")} /\ op.workItemId \in {None, Some(0)}
    \/ op.method = Some("POST") /\ op.workItemType \in {None, Some(<< >>)}

\* C17: when some operation of the list is malformed the call fails with
\* InvalidParams, the error cites the (0-based) index of the first malformed
\* operation, and no request is sent, whatever stands before or after it; when
\* none is, one composite request carries one entry per operation, in order.
C17_OperationsValidatedFirst ==
    \A c \in CallsOf("batch_update_work_items") :
        (Started(c) /\ HasOperations(c)) =>
            LET ops == OperationsOf(c)
                bad == {k \in 1 .. Len(ops) : MalformedOp(ops[k])}
            IN IF bad # {}
               THEN /\ pc[c] = "failed"
                    /\ result[c].code = InvalidParams
                    /\ \A k \in bad :
                          (\A j \in bad : k <= j)
                              => result[c].value = Some([operation |-> k - 1])
                    /\ reqs[c] = << >>
               ELSE /\ Len(reqs[c]) = 1
                    /\ reqs[c][1].kind = "batchUpdate"
                    /\ Len(reqs[c][1].ops) = Len(ops)
                    /\ \A k \in 1 .. Len(ops) :
                          reqs[c][1].ops[k].method = Val(ops[k].method)

\* C17 witness: a well-formed operation followed by a PATCH without workItemId
\* was refused, citing index 1, and nothing was sent.
C17_Witness ==
    \E c \in CallsOf("batch_update_work_items") :
        /\ pc[c] = "failed" /\ HasOperations(c)
        /\ Len(OperationsOf(c)) = 2
        /\ ~MalformedOp(OperationsOf(c)[1])
        /\ OperationsOf(c)[2].method = Some("PATCH") /\ OperationsOf(c)[2].workItemId = None
        /\ result[c].value = Some([operation |-> 1])
        /\ reqs[c] = << >>

\* C18: a call whose composite request returned succeeds; it reports as successes
\* the result entries with a code from 200 to 299 and as failures all the others,
\* so the two counts sum to the number of entries.
C18_CountsPartitionResults ==
    \A c \in CallsOf("batch_update_work_items") :
        (Started(c) /\ SawOk(c, 1) /\ pc[c] # "await_batchUpdate") =>
            LET codes == local[c].results
                r == Val(result[c].value)
            IN /\ pc[c] = "done" /\ result[c].status = "ok"
               /\ r.successCount =
                     Cardinality({k \in 1 .. Len(codes) : codes[k] \in 200 .. 299})
               /\ r.errorCount =
                     Cardinality({k \in 1 .. Len(codes) : codes[k] \notin 200 .. 299})
               /\ r.successCount + r.errorCount = Len(codes)

\* C18 witness: a call returned with one success and one failure.
C18_Witness ==
    \E c \in CallsOf("batch_update_work_items") :
        /\ pc[c] = "done"
        /\ Val(result[c].value).successCount = 1
        /\ Val(result[c].value).errorCount = 1
        /\ local[c].results \in {<<200, 300>>, <<199, 299>>}

\* C19: a delete call with a numeric id sends exactly one DELETE request for that
\* id; with destroy false or omitted the request carries no destroy flag and the
\* result reports the recycle bin, with destroy true it carries destroy=true and
\* the result reports permanent deletion; the report always matches the flag sent.
C19_DeleteReportsFlagSent ==
    \A c \in CallsOf("delete_work_item") :
        (Started(c) /\ IsSome(Arg(args[c], "id"))) =>
            /\ Len(reqs[c]) = 1
            /\ reqs[c][1].kind = "delete" /\ reqs[c][1].method = "DELETE"
            /\ reqs[c][1].workItemId = Val(Arg(args[c], "id"))
            /\ reqs[c][1].destroy <=> Arg(args[c], "destroy") = Some(TRUE)
            /\ pc[c] = "done" =>
                  /\ Val(result[c].value).id = reqs[c][1].workItemId
                  /\ Val(result[c].value).permanent <=> reqs[c][1].destroy
                  /\ Val(result[c].value).recycleBin <=> ~reqs[c][1].destroy

\* C19 witness: a delete without a destroy argument returned, reporting the
\* recycle bin.
C19_Witness ==
    \E c \in CallsOf("delete_work_item") :
        /\ pc[c] = "done"
        /\ Arg(args[c], "destroy") = None
        /\ ~reqs[c][1].destroy
        /\ Val(result[c].value).recycleBin

\* a delete with destroy true returned, reporting permanent deletion
DestroyedForGood ==
    \E c \in CallsOf("delete_work_item") :
        /\ pc[c] = "done" /\ reqs[c][1].destroy /\ Val(result[c].value).permanent

\* the value a create request sets a field to
FieldSent(c, path) ==
    LET doc == reqs[c][1].ops
        k == CHOOSE k \in 1 .. Len(doc) : doc[k].path = path
    IN doc[k].value

\* C20: a create request goes to the project asked for (the projectName argument,
\* else the memoized default); its area path and its iteration path are the
\* arguments of that name when given, unchanged, and that same project otherwise.
C20_CreateDefaultsToTargetProject ==
    \A c \in CallsOf("create_work_item") :
        (Started(c) /\ reqs[c] # << >>) =>
            /\ Len(reqs[c]) = 1 /\ reqs[c][1].kind = "create"
            /\ reqs[c][1].project = Some(AskedProject(c))
            /\ Cardinality({k \in 1 .. Len(reqs[c][1].ops) :
                               reqs[c][1].ops[k].path = "/fields/System.AreaPath"}) = 1
            /\ Cardinality({k \in 1 .. Len(reqs[c][1].ops) :
                               reqs[c][1].ops[k].path = "/fields/System.IterationPath"}) = 1
            /\ FieldSent(c, "/fields/System.AreaPath") =
                  (IF IsSome(Arg(args[c], "areaPath")) THEN Val(Arg(args[c], "areaPath"))
                   ELSE AskedProject(c))
            /\ FieldSent(c, "/fields/System.IterationPath") =
                  (IF IsSome(Arg(args[c], "iterationPath"))
                   THEN Val(Arg(args[c], "iterationPath"))
                   ELSE AskedProject(c))

\* C20 witness: a create call with no project, area path or iteration path was
\* sent to the memoized default project with both paths set to it.
C20_Witness ==
    \E c \in CallsOf("create_work_item") :
        /\ Len(reqs[c]) = 1
        /\ \A f \in {"projectName", "areaPath", "iterationPath"} : Arg(args[c], f) = None
        /\ reqs[c][1].project = projectName
        /\ FieldSent(c, "/fields/System.AreaPath") = Val(projectName)
        /\ FieldSent(c, "/fields/System.IterationPath") = Val(projectName)

\* a create call with a projectName and an explicit area path was sent
ExplicitAreaKept ==
    \E c \in CallsOf("create_work_item") :
        /\ Len(reqs[c]) = 1
        /\ Arg(args[c], "projectName") = Some(ProjB) /\ projectName = Some(ProjA)
        /\ FieldSent(c, "/fields/System.AreaPath") = <<"Area">>
        /\ FieldSent(c, "/fields/System.IterationPath") = ProjB

----------------------------------------------------------------------------
(* Properties of the dispatcher *)

\* the call was rejected
Rejected(c) == pc[c] = "failed" /\ result[c].status = "error"

\* the last request of the call was answered with a failure
RemoteFault(c) ==
    /\ reqs[c] # << >>
    /\ Len(resps[c]) = Len(reqs[c])
    /\ resps[c][Len(resps[c])].status = "fail"

\* C21 (as claimed): a call that is rejected carries one error code; the code is
\* InternalError when a request to the remote service failed, and it is
\* InvalidParams or MethodNotFound, never InternalError, when the handler
\* refused the call on its own without a failed request.
C21_ErrorCodesNormalised ==
    \A c \in CallIds :
        Rejected(c) =>
            /\ result[c].value = None \/ Val(result[c].value) \in [operation : Nat]
            /\ IF RemoteFault(c) THEN result[c].code = InternalError
               ELSE result[c].code \in {InvalidParams, MethodNotFound}

\* a request failed and the call was rejected with InternalError
RemoteFaultReported ==
    \E c \in CallIds : Rejected(c) /\ RemoteFault(c) /\ result[c].code = InternalError

\* the argument of the call is a value the tool cannot accept: a required
\* argument is missing, has the wrong shape or is out of range
Unacceptable(c) ==
    LET a == args[c]
        n == a.name
    IN CASE n = "get_work_item_details" -> ~IsSome(Arg(a, "id"))
         [] n = "update_work_item" ->
              \/ ~IsSome(Arg(a, "id"))
              \/ ~IsSome(Arg(a, "updates"))
              \/ Val(Arg(a, "updates")).type # "object"
              \/ Val(Arg(a, "updates")).entries = << >>
         [] n = "get_project_details" -> Text(a, "projectIdOrName") = << >>
         [] n = "link_commit_to_work_item" ->
              \/ ~IsSome(Arg(a, "workItemId"))
              \/ Len(Text(a, "commitSha")) # 40
              \/ Text(a, "repositoryName") = << >>
         [] n = "list_work_item_attachments" -> ~IsSome(Arg(a, "workItemId"))
         [] n = "delete_work_item_attachment" -> Coalesce(Arg(a, "attachmentId"), "") = ""
         [] n = "add_issue_comment" ->
              ~IsSome(Arg(a, "workItemId")) \/ Text(a, "comment") = << >>
         [] n = "create_work_item" -> Text(a, "type") = << >> \/ Text(a, "title") = << >>
         [] OTHER -> FALSE

\* C22 (as claimed): a call whose required argument is missing, of the wrong
\* shape or out of range (an id that is no number, an updates value that is
\* null, empty or no object, a commitSha whose length is not 40) is rejected
\* with InvalidParams and sends no request.
C22_InvalidArgsRefused ==
    \A c \in CallIds :
        (Started(c) /\ Unacceptable(c)) =>
            /\ Rejected(c)
            /\ result[c].code = InvalidParams
            /\ reqs[c] = << >>

\* a SHA of 39 characters, an empty updates object and a missing id were refused
\* with InvalidParams
ShortShaRefused ==
    \E c \in CallsOf("link_commit_to_work_item") :
        /\ Rejected(c) /\ result[c].code = InvalidParams /\ reqs[c] = << >>
        /\ IsSome(Arg(args[c], "workItemId"))
        /\ Len(Text(args[c], "commitSha")) = 39
        /\ Text(args[c], "repositoryName") # << >>
EmptyUpdatesRefused ==
    \E c \in CallsOf("update_work_item") :
        /\ Rejected(c) /\ result[c].code = InvalidParams /\ reqs[c] = << >>
        /\ IsSome(Arg(args[c], "id"))
        /\ Arg(args[c], "updates") = Some(JsObject(<< >>))

\* C30: the announced names and the case labels are the same set; a call of an
\* announced name reaches a case of its own and is never rejected as unknown; a
\* call of any other name is rejected with MethodNotFound and sends no request.
C30_CatalogMatchesDispatcher ==
    /\ Catalog = CaseLabels
    /\ \A c \in CallIds :
          /\ (pc[c] = "body" /\ args[c].name \in Catalog)
                => ENABLED Dispatch(c)
          /\ (Started(c) /\ args[c].name \in Catalog)
                => result[c].code # MethodNotFound
          /\ (Started(c) /\ args[c].name \notin Catalog)
                => /\ Rejected(c)
                   /\ result[c].code = MethodNotFound
                   /\ reqs[c] = << >>

\* C30 witness: a call of a name the server does not announce was rejected with
\* MethodNotFound before any request, the default project being resolved.
C30_Witness ==
    \E c \in CallIds :
        /\ args[c].name = "no_such_tool"
        /\ IsSome(local[c].currentProjectName)
        /\ Rejected(c) /\ result[c].code = MethodNotFound /\ reqs[c] = << >>

\* the process has the configuration it needs
Configured == env.ORG_URL # "" /\ env.PAT # ""

\* C23: the transport is connected only in a configured process whose default
\* project is resolved; a process that lacks ORG_URL or PAT exits without
\* creating a client or sending a request; a process whose first resolution
\* fails exits; and no tool call is dispatched, before or after an exit, unless
\* the default project is resolved.
C23_StartupAllOrNothing ==
    /\ pc[Main] = "running" => (Configured /\ IsSome(projectName))
    /\ ~Configured => (pc[Main] \in {"load", "exited"} /\ created = 0 /\ fetches = 0)
    /\ (result[Main].status = "error" \/ (Len(resps[Main]) >= 1 /\ projectName = None))
          => pc[Main] = "exited"
    /\ \A c \in CallIds :
          pc[c] # "idle" => (pc[Main] = "running" /\ Configured /\ IsSome(projectName))

\* C23 witness: a configured process whose project list could not be resolved
\* has exited, and no tool call was dispatched.
C23_Witness ==
    /\ Configured
    /\ pc[Main] = "exited"
    /\ fetches = 1 /\ projectName = None
    /\ \A c \in CallIds : pc[c] = "idle"

\* a process without its configuration has exited before anything else
ExitedUnconfigured == ~Configured /\ pc[Main] = "exited" /\ created = 0

\* the transport is connected and a tool call is being handled
ServingCalls == pc[Main] = "running" /\ \E c \in CallIds : pc[c] = "body"

----------------------------------------------------------------------------
(* Properties of the requests that change work items *)

\* the fields that place a work item in a project
PlacingFields == {"System.TeamProject", "System.AreaPath", "System.IterationPath"}

\* the patch entry writes one of the placing fields
Places(entry) == Len(entry.path) = 2 /\ entry.path[2] \in PlacingFields

\* the request changes the project, the area path or the iteration path of an
\* existing work item
Moves(r) ==
    \/ /\ r.kind \in {"update", "comment"}
       /\ \E k \in 1 .. Len(r.ops) : Places(r.ops[k])
    \/ /\ r.kind = "batchUpdate"
       /\ \E k \in 1 .. Len(r.ops) :
             /\ r.ops[k].method = "PATCH"
             /\ \E j \in 1 .. Len(r.ops[k].body) : Places(r.ops[k].body[j])

\* C24 (as claimed): no call of a tool other than create_work_item, whatever its
\* arguments (any updates map of update_work_item, any operation list of
\* batch_update_work_items, comments, links, attachments), sends a request that
\* changes the team project, the area path or the iteration path of a work item.
C24_ProjectAffiliationFixed ==
    \A c \in CallIds :
        args[c].name # "create_work_item" =>
            \A i \in 1 .. Len(reqs[c]) : ~Moves(reqs[c][i])

\* the requests of a call that change a work item by a JSON Patch of one entry
Links(c) == Sent(c, "link")

\* the tools that append a relation
LinkTools ==
    {"link_commit_to_work_item", "link_parent_work_item", "upload_work_item_attachment"}

\* C25: every request that touches the relations of a work item is sent by one
\* of the three link tools, is a PATCH entry with op "add" at path "/relations/-"
\* and carries one relation with its type and URL; a link tool that has returned
\* has sent exactly one of them; the entries of every other patch address
\* "/fields/..." only; and delete_work_item_attachment sends only the DELETE of
\* the attachment, naming no work item.
C25_RelationsAppendOnly ==
    \A c \in CallIds :
        /\ \A i \in 1 .. Len(reqs[c]) :
              LET r == reqs[c][i] IN
              /\ (r.op # "" \/ r.rel # "")
                    => /\ r.kind = "link" /\ args[c].name \in LinkTools
                       /\ r.op = "add" /\ r.path = "/relations/-"
                       /\ r.rel \in {"ArtifactLink", "AttachedFile",
                                     "System.LinkTypes.Hierarchy-Reverse"}
                       /\ IsSome(r.url)
                       /\ r.workItemId # 0
              /\ r.kind = "link" => r.op = "add"
              /\ r.kind \in {"update", "comment"}
                    => \A k \in 1 .. Len(r.ops) :
                          /\ r.ops[k].op \in {"replace", "add"}
                          /\ r.ops[k].path[1] \in {"/fields/", "/fields/System.History"}
              /\ r.kind = "batchUpdate"
                    => \A k \in 1 .. Len(r.ops) : \A j \in 1 .. Len(r.ops[k].body) :
                          /\ r.ops[k].body[j].op \in {"replace", "add"}
                          /\ r.ops[k].body[j].path[1] = "/fields/"
        /\ (args[c].name \in LinkTools /\ pc[c] = "done") => Len(Links(c)) = 1
        /\ args[c].name = "delete_work_item_attachment"
              => \A i \in 1 .. Len(reqs[c]) :
                    /\ reqs[c][i].kind = "deleteAttachment"
                    /\ reqs[c][i].method = "DELETE"
                    /\ reqs[c][i].workItemId = 0
                    /\ reqs[c][i].id = Val(Arg(args[c], "attachmentId"))

\* C25 witness: an upload in chunks has returned, and the one request of it
\* that names the work item is the "add" entry that appends the attachment.
C25_Witness ==
    \E c \in UploadCalls :
        /\ pc[c] = "done" /\ Sent(c, "chunk") # << >>
        /\ Len(Links(c)) = 1
        /\ Links(c)[1].op = "add" /\ Links(c)[1].path = "/relations/-"
        /\ Links(c)[1].rel = "AttachedFile"
        /\ Links(c)[1].workItemId = Val(Arg(args[c], "workItemId"))
        /\ \A i \in 1 .. Len(reqs[c]) :
              reqs[c][i].kind # "link" => reqs[c][i].workItemId = 0

\* version 0.2.0: a parent link was appended to the child with one "add" entry
ParentLinked ==
    \E c \in CallsOf("link_parent_work_item") :
        /\ pc[c] = "done"
        /\ Len(reqs[c]) = 1
        /\ reqs[c][1].op = "add" /\ reqs[c][1].path = "/relations/-"
        /\ reqs[c][1].rel = "System.LinkTypes.Hierarchy-Reverse"
        /\ reqs[c][1].workItemId = Val(Arg(args[c], "childId"))

\* a commit was linked, and an attachment was deleted
CommitLinked ==
    \E c \in CallsOf("link_commit_to_work_item") :
        /\ pc[c] = "done" /\ Len(reqs[c]) = 1
        /\ reqs[c][1].rel = "ArtifactLink" /\ reqs[c][1].op = "add"
AttachmentDeleted ==
    \E c \in CallsOf("delete_work_item_attachment") :
        pc[c] = "done" /\ Len(reqs[c]) = 1 /\ reqs[c][1].kind = "deleteAttachment"

----------------------------------------------------------------------------
(* Properties of the ordering *)

\* the text after ORDER BY of a query
OrderOf(query) ==
    LET o == CHOOSE i \in 1 .. Len(query) : query[i] = " ORDER BY "
    IN SubSeq(query, o + 1, Len(query))

\* the words of the orderBy argument of a call, none when it is omitted or empty
OrderWords(c) == Split(Text(args[c], "orderBy"), " ")

OrderColumns == {"[System.ChangedDate]", "[System.CreatedDate]", "[System.State]", "[System.Id]"}
Ascending == <<"A", "S", "C">>
Descending == {<<"DESC">>, <<"D", "E", "S", "C">>}

\* the column the caller's field maps to, when it is one of the four
KnownColumn(field) ==
    CASE field = <<"ChangedDate">> -> "[System.ChangedDate]"
      [] field = <<"CreatedDate">> -> "[System.CreatedDate]"
      [] field = <<"State">> -> "[System.State]"
      [] field = <<"ID">> -> "[System.Id]"
      [] OTHER -> ""

\* C26 (as claimed): for every orderBy argument the ORDER BY clause of the query
\* is one of the four mapped columns followed by ASC or DESC; with no orderBy it
\* is [System.ChangedDate] DESC; a field that is not one of the four sorts by
\* [System.ChangedDate]; a known field sorts by its column; and with no
\* direction the order is DESC.
C26_OrderByWhitelisted ==
    \A c \in SearchCalls :
        \A i \in 1 .. Len(reqs[c]) :
            reqs[c][i].kind = "wiql" =>
                LET o == OrderOf(reqs[c][i].query)
                    dir == SubSeq(o, 3, Len(o))
                    w == OrderWords(c)
                IN /\ Len(o) >= 3 /\ o[1] \in OrderColumns /\ o[2] = " "
                   /\ dir = Ascending \/ dir \in Descending
                   /\ Text(args[c], "orderBy") = << >>
                         => (o[1] = "[System.ChangedDate]" /\ dir \in Descending)
                   /\ Text(args[c], "orderBy") # << >>
                         => /\ o[1] = (IF KnownColumn(w[1]) # "" THEN KnownColumn(w[1])
                                       ELSE "[System.ChangedDate]")
                            /\ Len(w) = 1 => dir \in Descending

\* a query sorted by a known field in ascending order, one sorted by an unknown
\* field, and one with no orderBy went out
KnownFieldAscending ==
    \E c \in SearchCalls :
        /\ Len(reqs[c]) >= 1
        /\ Text(args[c], "orderBy") = <<"State", " ", "a", "s", "c">>
        /\ OrderOf(reqs[c][1].query) = <<"[System.State]", " ", "A", "S", "C">>
UnknownFieldFallsBack ==
    \E c \in SearchCalls :
        /\ Len(reqs[c]) >= 1
        /\ Text(args[c], "orderBy") = <<"Priority", " ", "a", "s", "c">>
        /\ OrderOf(reqs[c][1].query) = <<"[System.ChangedDate]", " ", "A", "S", "C">>

----------------------------------------------------------------------------
(* Properties of a completed chunked upload *)

\* the least number of pieces of at most d that make up n
Ceil(n, d) == (n + d - 1) \div d

\* a call that took the chunked path with a chunk size of at least 1 and has
\* returned, every request having succeeded
ChunkedDone(c) ==
    /\ pc[c] = "done" /\ Logged(c)
    /\ reqs[c] # << >> /\ reqs[c][1].kind = "init"
    /\ ChunkSizeOf(c) >= 1

\* C27: a chunked upload with a chunk size of at least 1 whose requests all
\* succeed has sent exactly the initiate request, then ceil(length / chunkSize)
\* chunk requests, then one link request, and nothing else; the URL in the link
\* request and in the result is built from ORG_URL, the target project, the
\* attachment ID that the initiate request returned and the file name, and the
\* result carries that ID.
C27_ChunkedRequestCount ==
    \A c \in UploadCalls :
        ChunkedDone(c) =>
            LET n == Ceil(Max(DecodedLength(c), 0), ChunkSizeOf(c))
                url == SynthUrl([NoLocal EXCEPT
                                    !.targetProjectName = AskedProject(c),
                                    !.attachmentId = resps[c][1].id],
                                Val(Arg(args[c], "fileName")))
            IN /\ Len(reqs[c]) = n + 2
               /\ \A i \in 2 .. n + 1 :
                     reqs[c][i].kind = "chunk" /\ reqs[c][i].id = resps[c][1].id
               /\ reqs[c][n + 2].kind = "link"
               /\ \A i \in 1 .. Len(resps[c]) : resps[c][i].status = "ok"
               /\ reqs[c][n + 2].url = url
               /\ Val(result[c].value).url = url
               /\ Val(result[c].value).id = resps[c][1].id

\* C27 witness: a buffer that is no multiple of the chunk size was uploaded in
\* ceil(length / chunkSize) chunks for another project than the default one.
C27_Witness ==
    \E c \in UploadCalls :
        /\ ChunkedDone(c)
        /\ DecodedLength(c) = 3 /\ ChunkSizeOf(c) = 2
        /\ Len(Sent(c, "chunk")) = 2
        /\ Arg(args[c], "projectName") = Some(ProjB)

\* the default chunk size against a buffer above the default threshold
DefaultsChunked ==
    \E c \in UploadCalls :
        /\ ChunkedDone(c)
        /\ Arg(args[c], "chunkSize") = None
        /\ Len(Sent(c, "chunk")) > 20

----------------------------------------------------------------------------
(* Properties of a failed resolution *)

\* the answer a caller is about to resume with names a usable first project
Usable(c) ==
    /\ net[c].status = "ok"
    /\ net[c].data.projects # << >>
    /\ net[c].data.projects[1] # << >>

\* C28: a resolution whose request fails, whose project list is empty or whose
\* first project has no name throws InternalError and leaves the memo as it
\* was, unset if it was unset, and no other resolution throws; the memo is never
\* set to an empty name; and a resolution that finds the memo unset, whether or
\* not an earlier one has failed, always sends a new project-list request.
C28_FailedResolutionLeavesMemoUnset ==
    [][/\ projectName' # Some(<< >>)
       /\ \A c \in CallIds :
             /\ (pc[c] = "gpn_wait" /\ pc'[c] # "gpn_wait")
                   => IF Usable(c)
                      THEN /\ pc'[c] = "body"
                           /\ projectName' = Some(net[c].data.projects[1])
                           /\ local'[c].currentProjectName = projectName'
                      ELSE /\ pc'[c] = "failed"
                           /\ result'[c].status = "error"
                           /\ result'[c].code = InternalError
                           /\ projectName' = projectName
                           /\ writes' = writes
             /\ (pc[c] = "gpn" /\ pc'[c] # "gpn" /\ projectName = None)
                   => pc'[c] = "gpn_inst" /\ projectName' = None
             /\ (pc[c] = "gpn_inst" /\ pc'[c] # "gpn_inst")
                   => /\ pc'[c] = "gpn_wait"
                      /\ fetches' = fetches + 1
                      /\ Len(reqs'[c]) = Len(reqs[c]) + 1]_vars

\* C28 witness: a caller's resolution failed with InternalError, its next one
\* sent a second project-list request and failed again, and the memo is unset.
C28_Witness ==
    \E c \in CallIds :
        /\ pc[c] = "failed"
        /\ result[c].status = "error" /\ result[c].code = InternalError
        /\ Len(reqs[c]) = 2 /\ Len(resps[c]) = 2
        /\ resps[c][1].status = "ok" /\ resps[c][2].status = "fail"
        /\ projectName = None /\ writes = << >>
        /\ fetches = 2

\* after a failed resolution the next one succeeded and set the memo
ResolvedOnRetry ==
    \E c \in CallIds :
        /\ Len(resps[c]) = 2 /\ resps[c][1].status = "fail" /\ resps[c][2].status = "ok"
        /\ pc[c] = "body" /\ IsSome(projectName)
        /\ local[c].currentProjectName = projectName

----------------------------------------------------------------------------
(* Properties of the scope of a search *)

\* C29 (as claimed): the project named in the URL of a query is the project of
\* its [System.TeamProject] predicate, also when the caller passes a
\* projectName that is not the default project.
C29_UrlProjectIsPredicateProject ==
    \A c \in SearchCalls :
        \A i \in 1 .. Len(reqs[c]) :
            reqs[c][i].kind = "wiql" =>
                LET w == WhereClause(reqs[c][i].query)
                    urlProject == Val(reqs[c][i].project)
                    n == Len(Escape(urlProject))
                IN /\ Len(w) >= n + 3
                   /\ w[1] = "[System.TeamProject]" /\ w[2] = " = '"
                   /\ Denotes(SubSeq(w, 3, n + 2), urlProject)
                   /\ w[n + 3] = "'"

\* a query for the default project went out, by name and by default
DefaultProjectSearched ==
    \E c \in SearchCalls :
        /\ Len(reqs[c]) >= 1 /\ reqs[c][1].kind = "wiql"
        /\ Arg(args[c], "projectName") = projectName
        /\ reqs[c][1].project = projectName
        /\ WhereClause(reqs[c][1].query) = ProjectCondition(Val(projectName))

====
